---------------------------- MODULE Spec2Model ----------------------------
(***************************************************************************)
(* Coronary_Artery_Score: the three scoring calculators (SYNTAX, Gensini,  *)
(* CAD-RADS) of src/src/coronary_score/calculators over the patient model  *)
(* of src/src/coronary_score/models/patient.py.                            *)
(*                                                                         *)
(* Number representation.  The program computes with Python floats; the    *)
(* model uses fixed point integers:                                        *)
(*   stenosis_percent        hundredths of a percent   (75.0 %  -> 7500)    *)
(*   length_mm               tenths of a millimetre    (25.0 mm -> 250)     *)
(*   SYNTAX weights, factors tenths                    (3.5     -> 35)      *)
(*   SYNTAX scores           hundredths                (5.25    -> 525)     *)
(*   Gensini weights, scores thousandths               (2.5     -> 2500)    *)
(*   CAD-RADS vessel scores  stenosis (hundredths) x importance weight     *)
(*   creatinine_mg_dl        tenths                    (2.0     -> 20)      *)
(*   ejection_fraction       tenths of a percent       (45.0 %  -> 450)     *)
(* Every SYNTAX weight, factor and complexity term is a multiple of 0.5,   *)
(* so every SYNTAX sum is a multiple of 0.25 and every Gensini sum a       *)
(* multiple of 0.5: these are exact binary floats, and the float sums of   *)
(* the program equal the integer sums of the model.                        *)
(*                                                                         *)
(* Enum valued fields (vessel, location, gender) are modelled as the       *)
(* enumeration member the calculators read with `.value`.                  *)
(***************************************************************************)
EXTENDS Integers, Sequences, FiniteSets, TLC

VARIABLES
    patient,   \* PatientData: the clinical attributes
    lesions,   \* PatientData.lesions, in insertion order
    calls      \* the calculator calls made on this patient, in call order,
               \* each with the value it returned

vars == <<patient, lesions, calls>>

(***************************************************************************)
(* Bounds of the model.                                                    *)
(***************************************************************************)
\* lesions per patient in the specifications over the large lesion pools
MaxLesions == 2
\* lesions per patient in the specifications over the small lesion pools
MaxScenarioLesions == 3
\* calculator calls made on one patient snapshot
MaxCalls == 1
\* direct calls of _stenosis_to_grade made one after the other
MaxGradeCalls == 2
\* calls of the calculate methods made one after the other on one patient
MaxRepeatCalls == 3
\* constructor calls, of Lesion or PatientData, made one after the other
MaxConstructions == 3
\* files selected for one run of run_scoring_with_dialog.main
MaxFiles == 5
\* rows of one input table, and lesion records handed to aggregate_scores
MaxRows == 3
\* patients handed to DataExporter.export_to_file
MaxPatients == 2
\* phrases a free-text cell is made of
MaxPhrases == 3
\* columns of an input table
MaxColumns == 3

(***************************************************************************)
(* models/patient.py: enumerations and records.                            *)
(***************************************************************************)
VesselType == {"LAD", "LCX", "RCA", "LM", "OM", "D", "PLV", "PDA"}

StenosisLocation == {"proximal", "mid", "distal"}

Gender == {"male", "female"}

\* Optional[...] = None
None == -1

\* Lesion(vessel=v, stenosis_percent=st, location=loc): the other fields default
Lesion(v, loc, st) ==
    [vessel |-> v, segment_id |-> None, stenosis_percent |-> st,
     location |-> loc, length_mm |-> None,
     is_bifurcation |-> FALSE, is_ostial |-> FALSE, is_calcified |-> FALSE,
     is_tortuous |-> FALSE, is_cto |-> FALSE, thrombus_present |-> FALSE]

\* PatientData(age=a, gender=g): the other fields default
PatientData(a, g) ==
    [age |-> a, gender |-> g, diabetes |-> FALSE, hypertension |-> FALSE,
     creatinine_mg_dl |-> None, ejection_fraction |-> None]

\* Python truthiness of an Optional number: None and 0 are false
Truthy(x) == x # None /\ x # 0

(***************************************************************************)
(* Rounding.                                                               *)
(***************************************************************************)
\* round(x, 1) of a float that holds x exactly (x in hundredths, result in
\* hundredths): Python rounds the exact value half to even.  Every value the
\* SYNTAX calculator rounds here is a multiple of 0.25, held exactly.
Round1(h) ==
    LET q == h \div 10
        r == h % 10
    IN  IF r < 5 THEN q * 10
        ELSE IF r > 5 THEN (q + 1) * 10
        ELSE IF q % 2 = 0 THEN q * 10 ELSE (q + 1) * 10

\* round(x, 2) of a float that holds x exactly (x in thousandths, result in
\* thousandths).  Every value the Gensini calculator rounds here is a
\* multiple of 0.5, held exactly.
Round2(th) ==
    LET q == th \div 10
        r == th % 10
    IN  IF r < 5 THEN q * 10
        ELSE IF r > 5 THEN (q + 1) * 10
        ELSE IF q % 2 = 0 THEN q * 10 ELSE (q + 1) * 10


(***************************************************************************)
(* calculators/syntax_calculator.py                                        *)
(***************************************************************************)
\* SyntaxCalculator.VESSEL_WEIGHTS, in tenths, keyed by segment id 1..16
VESSEL_WEIGHTS ==
    [s \in 1..16 |->
        CASE s = 5 -> 50
          [] s \in {6, 11, 1} -> 35
          [] s = 7 -> 25
          [] s \in {10, 15, 16} -> 5
          [] OTHER -> 10]

\* SyntaxCalculator.COMPLEXITY_SCORES, in hundredths
COMPLEXITY_SCORES ==
    [bifurcation |-> 100, ostial |-> 50, severe_calcification |-> 200,
     thrombus |-> 100, diffuse_disease |-> 100, chronic_occlusion |-> 500,
     tortuous |-> 100]

\* _get_segment_id: the lesion's own segment id when it is truthy, else the
\* id inferred from vessel and location; a vessel without a mapping gets 1
Syntax_get_segment_id(lesion) ==
    IF Truthy(lesion.segment_id) THEN lesion.segment_id
    ELSE CASE lesion.vessel = "LM" -> 5
           [] lesion.vessel = "LAD" ->
                (CASE lesion.location = "proximal" -> 6
                   [] lesion.location = "mid" -> 7
                   [] lesion.location = "distal" -> 8)
           [] lesion.vessel = "LCX" ->
                (CASE lesion.location = "proximal" -> 11
                   [] lesion.location = "mid" -> 13
                   [] lesion.location = "distal" -> 14)
           [] lesion.vessel = "RCA" ->
                (CASE lesion.location = "proximal" -> 1
                   [] lesion.location = "mid" -> 2
                   [] lesion.location = "distal" -> 3)
           [] OTHER -> 1

\* the stenosis factor of _get_base_score, in tenths
Syntax_stenosis_factor(stenosis_percent) ==
    IF stenosis_percent >= 9900 THEN 50
    ELSE IF stenosis_percent >= 9000 THEN 20
    ELSE IF stenosis_percent >= 7000 THEN 15
    ELSE 10

\* _get_base_score: weight x stenosis factor, in hundredths
Syntax_get_base_score(lesion) ==
    LET segment_id == Syntax_get_segment_id(lesion)
        weight == IF segment_id \in DOMAIN VESSEL_WEIGHTS
                  THEN VESSEL_WEIGHTS[segment_id] ELSE 10
    IN  weight * Syntax_stenosis_factor(lesion.stenosis_percent)

\* _get_complexity_score, in hundredths
Syntax_get_complexity_score(lesion) ==
      (IF lesion.is_bifurcation THEN COMPLEXITY_SCORES.bifurcation ELSE 0)
    + (IF lesion.is_ostial THEN COMPLEXITY_SCORES.ostial ELSE 0)
    + (IF lesion.is_calcified THEN COMPLEXITY_SCORES.severe_calcification ELSE 0)
    + (IF lesion.thrombus_present THEN COMPLEXITY_SCORES.thrombus ELSE 0)
    + (IF lesion.is_cto THEN COMPLEXITY_SCORES.chronic_occlusion ELSE 0)
    + (IF lesion.is_tortuous THEN COMPLEXITY_SCORES.tortuous ELSE 0)
    + (IF Truthy(lesion.length_mm) /\ lesion.length_mm > 200
       THEN COMPLEXITY_SCORES.diffuse_disease ELSE 0)

\* a scoring loop that also skips a lesion of exactly 50 %
Syntax_skips_at_most_50(lesion) == lesion.stenosis_percent <= 5000

\* the test `if lesion.stenosis_percent < 50: continue` of the scoring loop
Syntax_skips(lesion) == lesion.stenosis_percent < 5000

\* the for loop of _calculate_anatomical_score from lesion i on
RECURSIVE Syntax_anatomical_loop(_, _, _)
Syntax_anatomical_loop(ls, i, total_score) ==
    IF i > Len(ls) THEN total_score
    ELSE IF Syntax_skips(ls[i])
         THEN Syntax_anatomical_loop(ls, i + 1, total_score)
         ELSE Syntax_anatomical_loop(ls, i + 1,
                  total_score + Syntax_get_base_score(ls[i])
                              + Syntax_get_complexity_score(ls[i]))

\* the value _calculate_anatomical_score returns for a loop total
Syntax_anatomical_result(total_score) == Round1(total_score)

\* _calculate_anatomical_score, in hundredths
Syntax_calculate_anatomical_score(ls) ==
    Syntax_anatomical_result(Syntax_anatomical_loop(ls, 1, 0))

\* _calculate_clinical_score: whole points
Syntax_calculate_clinical_score(p) ==
      (IF p.age >= 80 THEN 10 ELSE IF p.age >= 70 THEN 5
       ELSE IF p.age >= 60 THEN 2 ELSE 0)
    + (IF p.gender = "female" THEN 2 ELSE 0)
    + (IF p.diabetes THEN 3 ELSE 0)
    + (IF Truthy(p.creatinine_mg_dl) /\ p.creatinine_mg_dl > 20 THEN 4 ELSE 0)
    + (IF Truthy(p.ejection_fraction) /\ p.ejection_fraction < 500 THEN 3 ELSE 0)

\* The anatomical scores t (in tenths, up to 150.0) for which the double
\* t/10 * (1 + c/100) lies below the decimal tie it stands for, so that
\* round(., 1) rounds it down: IEEE-754 double arithmetic, tabulated per
\* clinical score c.  At every other decimal tie the double lies above.
SyntaxII_tie_rounds_down(c) ==
    CASE c = 2 -> {25, 225, 325, 375, 575, 675, 775, 875, 1025, 1375, 1425, 1475}
    [] c = 3 -> {550, 750, 850, 1450}
    [] c = 5 -> {50, 190, 250, 330, 430, 450, 610, 650, 710, 810, 850, 910,
                 1050, 1250, 1270, 1370, 1450, 1470}
    [] c = 6 -> {125, 625, 675, 1125, 1225, 1475}
    [] c = 7 -> {650, 750}
    [] c = 9 -> {1250}
    [] c = 10 -> {75, 175, 375, 675, 775, 1175, 1275, 1375, 1475}
    [] c = 13 -> {50, 150, 250, 350, 450, 550, 650, 750, 850, 950, 1050, 1150,
                 1250, 1350, 1450}
    [] c = 14 -> {1125}
    [] c = 15 -> {10, 30, 70, 90, 110, 130, 150, 170, 190, 210, 230, 250, 270,
                 290, 310, 330, 350, 370, 390, 410, 430, 450, 470, 490, 510,
                 530, 550, 570, 590, 610, 630, 670, 690, 710, 730, 750, 770,
                 790, 810, 830, 850, 870, 890, 910, 930, 950, 970, 990, 1010,
                 1030, 1050, 1070, 1090, 1110, 1130, 1150, 1170, 1190, 1210,
                 1230, 1270, 1290, 1310, 1330, 1350, 1370, 1390, 1410, 1430,
                 1470, 1490}
    [] c = 17 -> {50, 150, 250, 350, 450, 550, 650, 850, 950, 1050, 1150, 1250,
                 1350, 1450}
    [] c = 18 -> {25, 75, 175, 225, 275, 375, 425, 475, 525, 575, 675, 725, 775,
                 825, 875, 925, 975, 1025, 1075, 1225, 1275, 1325, 1375, 1425,
                 1475}
    [] c = 19 -> {50, 150, 350, 450, 650, 750, 850, 950, 1050, 1150, 1450}
    [] c = 22 -> {25, 125, 175, 225, 275, 325, 475, 525, 575, 625, 675, 775,
                 825, 925, 1025, 1125, 1175, 1225, 1275, 1425, 1475}
    [] OTHER -> {}

\* _calculate_syntax_ii_score: round(anatomical * (1 + clinical/100), 1), in
\* hundredths; anatomical_score is a multiple of 0.1
Syntax_calculate_syntax_ii_score(p, anatomical_score) ==
    LET c == Syntax_calculate_clinical_score(p)
        t == anatomical_score \div 10
        thousandths == t * (100 + c)
        q == thousandths \div 100
        r == thousandths % 100
    IN  IF r < 50 THEN q * 10
        ELSE IF r > 50 THEN (q + 1) * 10
        ELSE IF t \in SyntaxII_tie_rounds_down(c) THEN q * 10 ELSE (q + 1) * 10

\* risk bands that open at their lower bound: 22 is already intermediate
Syntax_get_risk_category_exclusive(score) ==
    IF score < 2200 THEN "low"
    ELSE IF score < 3200 THEN "intermediate"
    ELSE "high"

\* _get_risk_category, of a score in hundredths
Syntax_get_risk_category(score) ==
    IF score <= 2200 THEN "low"
    ELSE IF score <= 3200 THEN "intermediate"
    ELSE "high"

\* SyntaxCalculator.calculate
Syntax_calculate(p, ls) ==
    IF ls = <<>>
    THEN [total_score |-> 0, anatomical_score |-> 0, clinical_score |-> 0,
          syntax_ii_score |-> 0, risk_category |-> "low"]
    ELSE LET anatomical_score == Syntax_calculate_anatomical_score(ls)
         IN  [total_score |-> anatomical_score,
              anatomical_score |-> anatomical_score,
              clinical_score |-> Syntax_calculate_clinical_score(p),
              syntax_ii_score |->
                  Syntax_calculate_syntax_ii_score(p, anatomical_score),
              risk_category |-> Syntax_get_risk_category(anatomical_score)]

\* the lesion_details loop of get_detailed_report from lesion i on
RECURSIVE Syntax_lesion_details(_, _)
Syntax_lesion_details(ls, i) ==
    IF i > Len(ls) THEN <<>>
    ELSE (IF ls[i].stenosis_percent >= 5000
          THEN <<[lesion_index |-> i,
                  vessel |-> ls[i].vessel,
                  stenosis_percent |-> ls[i].stenosis_percent,
                  base_score |-> Syntax_get_base_score(ls[i]),
                  complexity_score |-> Syntax_get_complexity_score(ls[i]),
                  total_contribution |-> Syntax_get_base_score(ls[i])
                      + Syntax_get_complexity_score(ls[i])]>>
          ELSE <<>>)
         \o Syntax_lesion_details(ls, i + 1)

\* _get_treatment_recommendation: the band of the recommendation text
Syntax_get_treatment_recommendation(score) ==
    IF score <= 2200 THEN "PCI"
    ELSE IF score <= 3200 THEN "PCI_or_CABG"
    ELSE "CABG"

\* SyntaxCalculator.get_detailed_report
Syntax_get_detailed_report(p, ls) ==
    LET scores == Syntax_calculate(p, ls)
    IN  [scores |-> scores,
         lesion_details |-> Syntax_lesion_details(ls, 1),
         recommendation |->
             Syntax_get_treatment_recommendation(scores.total_score)]


(***************************************************************************)
(* calculators/gensini_calculator.py                                       *)
(***************************************************************************)
\* GensiniCalculator.STENOSIS_SCORES in dictionary order: <<min, max, score>>
STENOSIS_SCORES ==
    << <<0, 2500, 1>>, <<2500, 5000, 2>>, <<5000, 7500, 4>>,
       <<7500, 9000, 8>>, <<9000, 9900, 16>>, <<9900, 10000, 32>> >>

\* intervals closed below and open above: 25 already scores 2
Gensini_in_interval_closed_open(min_stenosis, stenosis_percent, max_stenosis) ==
    min_stenosis <= stenosis_percent /\ stenosis_percent < max_stenosis

\* the interval test of _get_stenosis_score
Gensini_in_interval(min_stenosis, stenosis_percent, max_stenosis) ==
    min_stenosis < stenosis_percent /\ stenosis_percent <= max_stenosis

\* _get_stenosis_score: the score of the first interval that holds the
\* stenosis, 0 when none does
Gensini_get_stenosis_score(stenosis_percent) ==
    LET hits == {k \in DOMAIN STENOSIS_SCORES :
                    Gensini_in_interval(STENOSIS_SCORES[k][1], stenosis_percent,
                                        STENOSIS_SCORES[k][2])}
    IN  IF hits = {} THEN 0
        ELSE STENOSIS_SCORES[CHOOSE k \in hits : \A j \in hits : k <= j][3]

\* utils/vessel_segments.py GENSINI_WEIGHTS, in thousandths, by segment id
GENSINI_WEIGHTS ==
    [s \in 1..16 |->
        CASE s = 5 -> 5000
          [] s \in {6, 11} -> 2500
          [] s = 7 -> 1500
          [] s \in {10, 15, 16} -> 500
          [] OTHER -> 1000]

\* default_weights of _get_vessel_weight, in thousandths
Gensini_default_weights ==
    [v \in VesselType |->
        CASE v = "LM" -> 5000
          [] v \in {"LAD", "LCX"} -> 2500
          [] v = "PLV" -> 500
          [] OTHER -> 1000]

\* _get_vessel_weight, in thousandths
Gensini_get_vessel_weight(lesion) ==
    IF Truthy(lesion.segment_id) /\ lesion.segment_id \in DOMAIN GENSINI_WEIGHTS
    THEN GENSINI_WEIGHTS[lesion.segment_id]
    ELSE LET base_weight == Gensini_default_weights[lesion.vessel]
         IN  CASE lesion.location = "proximal" ->
                    (IF lesion.vessel \in {"LAD", "LCX"} THEN 2500
                     ELSE IF lesion.vessel = "RCA" THEN 1000
                     ELSE base_weight)
               [] lesion.location = "mid" ->
                    (IF lesion.vessel \in {"LAD", "LCX"} THEN 1500
                     ELSE IF lesion.vessel = "RCA" THEN 1000
                     ELSE base_weight)
               [] lesion.location = "distal" -> 1000

\* `if key not in d: d[key] = 0` followed by `d[key] += x`
DictAdd(d, key, x) ==
    IF key \in DOMAIN d THEN [d EXCEPT ![key] = @ + x]
    ELSE [k \in DOMAIN d \cup {key} |-> IF k = key THEN x ELSE d[k]]

\* _get_severity_grade, of a total in thousandths
Gensini_get_severity_grade(total_score) ==
    IF total_score = 0 THEN "normal"
    ELSE IF total_score <= 20000 THEN "mild"
    ELSE IF total_score <= 40000 THEN "moderate"
    ELSE IF total_score <= 80000 THEN "severe"
    ELSE "critical"

\* a loop that lists every lesion but, as the SYNTAX loop does, leaves a
\* lesion below 50 % out of the total
Gensini_loop_body_filtered(acc, i, lesion) ==
    LET stenosis_score == Gensini_get_stenosis_score(lesion.stenosis_percent)
        vessel_weight == Gensini_get_vessel_weight(lesion)
        lesion_score == stenosis_score * vessel_weight
        counted == IF lesion.stenosis_percent < 5000 THEN 0 ELSE lesion_score
    IN  [total_score |-> acc.total_score + counted,
         vessel_scores |-> DictAdd(acc.vessel_scores, lesion.vessel, lesion_score),
         lesion_contributions |->
             Append(acc.lesion_contributions,
                    [lesion_index |-> i,
                     vessel |-> lesion.vessel,
                     stenosis_percent |-> lesion.stenosis_percent,
                     stenosis_score |-> stenosis_score,
                     vessel_weight |-> vessel_weight,
                     contribution |-> lesion_score])]

\* one pass of the for loop of calculate: lesion i scored into the
\* accumulators acc
Gensini_loop_body(acc, i, lesion) ==
    LET stenosis_score == Gensini_get_stenosis_score(lesion.stenosis_percent)
        vessel_weight == Gensini_get_vessel_weight(lesion)
        lesion_score == stenosis_score * vessel_weight
    IN  [total_score |-> acc.total_score + lesion_score,
         vessel_scores |-> DictAdd(acc.vessel_scores, lesion.vessel, lesion_score),
         lesion_contributions |->
             Append(acc.lesion_contributions,
                    [lesion_index |-> i,
                     vessel |-> lesion.vessel,
                     stenosis_percent |-> lesion.stenosis_percent,
                     stenosis_score |-> stenosis_score,
                     vessel_weight |-> vessel_weight,
                     contribution |-> lesion_score])]

\* the for loop of calculate from lesion i on
RECURSIVE Gensini_loop(_, _, _)
Gensini_loop(ls, i, acc) ==
    IF i > Len(ls) THEN acc
    ELSE Gensini_loop(ls, i + 1, Gensini_loop_body(acc, i, ls[i]))

\* GensiniCalculator.calculate: the severity grade is taken from the
\* total before it is rounded
Gensini_calculate(p, ls) ==
    IF ls = <<>>
    THEN [total_score |-> 0, vessel_scores |-> <<>>,
          lesion_contributions |-> <<>>, severity_grade |-> "normal"]
    ELSE LET acc == Gensini_loop(ls, 1,
                        [total_score |-> 0, vessel_scores |-> <<>>,
                         lesion_contributions |-> <<>>])
         IN  [total_score |-> Round2(acc.total_score),
              vessel_scores |-> acc.vessel_scores,
              lesion_contributions |-> acc.lesion_contributions,
              severity_grade |-> Gensini_get_severity_grade(acc.total_score)]

\* _assess_cardiovascular_risk: risk_level and the number of risk_modifiers
Gensini_assess_cardiovascular_risk(gensini_score, p) ==
    [risk_level |->
         IF gensini_score > 80000 THEN "very_high"
         ELSE IF gensini_score > 40000 THEN "high"
         ELSE IF gensini_score > 20000 THEN "moderate"
         ELSE "low",
     risk_modifiers |->
           (IF p.age >= 75 THEN 1 ELSE 0)
         + (IF p.diabetes THEN 1 ELSE 0)
         + (IF Truthy(p.ejection_fraction) /\ p.ejection_fraction < 500
            THEN 1 ELSE 0)
         + (IF Truthy(p.creatinine_mg_dl) /\ p.creatinine_mg_dl > 20
            THEN 1 ELSE 0)]

\* GensiniCalculator.get_detailed_report: the result and the risk assessment
Gensini_get_detailed_report(p, ls) ==
    LET result == Gensini_calculate(p, ls)
    IN  [gensini_result |-> result,
         risk_assessment |->
             Gensini_assess_cardiovascular_risk(result.total_score, p),
         treatment_recommendation |-> result.severity_grade]

(***************************************************************************)
(* calculators/cad_rads_calculator.py                                      *)
(***************************************************************************)
\* CadRadsCalculator.CADRADS_GRADES: the "range" of each grade, in order
CADRADS_GRADES ==
    [grade \in 0..5 |->
        CASE grade = 0 -> <<0, 0>>
          [] grade = 1 -> <<100, 2400>>
          [] grade = 2 -> <<2500, 4900>>
          [] grade = 3 -> <<5000, 6900>>
          [] grade = 4 -> <<7000, 9900>>
          [] grade = 5 -> <<10000, 10000>>]

\* CadRadsCalculator.VESSEL_IMPORTANCE
VESSEL_IMPORTANCE ==
    [v \in VesselType |->
        CASE v = "LM" -> 5
          [] v = "LAD" -> 4
          [] v \in {"LCX", "RCA"} -> 3
          [] v \in {"OM", "D", "PDA"} -> 2
          [] v = "PLV" -> 1]

\* _stenosis_to_grade: the first grade whose range holds the stenosis, 0
\* when none does
CadRads_stenosis_to_grade(stenosis_percent) ==
    LET hits == {grade \in DOMAIN CADRADS_GRADES :
                    /\ CADRADS_GRADES[grade][1] <= stenosis_percent
                    /\ stenosis_percent <= CADRADS_GRADES[grade][2]}
    IN  IF hits = {} THEN 0
        ELSE CHOOSE grade \in hits : \A g \in hits : grade <= g

\* max(...) of a non-empty set of numbers
Max(S) == CHOOSE x \in S : \A y \in S : y <= x

\* the vessels of the lesions
VesselsOf(ls) == {ls[i].vessel : i \in DOMAIN ls}

\* the grade _calculate_vessel_grades gives a vessel from its lesions'
\* stenoses
CadRads_vessel_grade(stenoses) == CadRads_stenosis_to_grade(Max(stenoses))

\* _calculate_vessel_grades: per vessel, the grade of its largest stenosis
CadRads_calculate_vessel_grades(ls) ==
    [v \in VesselsOf(ls) |->
        CadRads_vessel_grade({ls[i].stenosis_percent :
                                 i \in {j \in DOMAIN ls : ls[j].vessel = v}})]

\* the for loop of _find_dominant_vessel from lesion i on: the dictionary
\* vessel_scores as its keys in insertion order and its values, each
\* stenosis_percent/100 x importance weight scaled by 10000
RECURSIVE CadRads_vessel_scores(_, _, _)
CadRads_vessel_scores(ls, i, acc) ==
    IF i > Len(ls) THEN acc
    ELSE LET vessel == ls[i].vessel
             vessel_score == ls[i].stenosis_percent * VESSEL_IMPORTANCE[vessel]
         IN  CadRads_vessel_scores(ls, i + 1,
                 [keys |-> IF vessel \in DOMAIN acc.score THEN acc.keys
                           ELSE Append(acc.keys, vessel),
                  score |-> DictAdd(acc.score, vessel, vessel_score)])

\* None, where a vessel name is expected
NoVessel == "None"

\* max(vessel_scores) without its key: the vessel name that sorts last
CadRads_max_key_by_name(keys, score) ==
    LET rank == [v \in VesselType |->
                    CASE v = "D" -> 1 [] v = "LAD" -> 2 [] v = "LCX" -> 3
                      [] v = "LM" -> 4 [] v = "OM" -> 5 [] v = "PDA" -> 6
                      [] v = "PLV" -> 7 [] v = "RCA" -> 8]
    IN  keys[CHOOSE k \in DOMAIN keys :
                \A j \in DOMAIN keys : rank[keys[j]] <= rank[keys[k]]]

\* max(vessel_scores, key=vessel_scores.get): the first key, in insertion
\* order, that no other key's value exceeds
CadRads_max_key(keys, score) ==
    keys[CHOOSE k \in DOMAIN keys :
            /\ \A j \in DOMAIN keys : score[keys[j]] <= score[keys[k]]
            /\ \A j \in 1..(k - 1) : score[keys[j]] < score[keys[k]]]

\* _find_dominant_vessel
CadRads_find_dominant_vessel(ls) ==
    IF ls = <<>> THEN NoVessel
    ELSE LET vs == CadRads_vessel_scores(ls, 1, [keys |-> <<>>, score |-> <<>>])
         IN  CadRads_max_key(vs.keys, vs.score)

\* CadRadsCalculator.calculate; recommendation and follow_up are texts
\* looked up by the overall grade
CadRads_calculate(p, ls) ==
    IF ls = <<>>
    THEN [overall_grade |-> 0, max_stenosis |-> 0, vessel_grades |-> <<>>,
          dominant_vessel |-> NoVessel, recommendation |-> 0, follow_up |-> 0]
    ELSE LET vessel_grades == CadRads_calculate_vessel_grades(ls)
             overall_grade ==
                 Max({vessel_grades[v] : v \in DOMAIN vessel_grades})
         IN  [overall_grade |-> overall_grade,
              max_stenosis |->
                  Max({ls[i].stenosis_percent : i \in DOMAIN ls}),
              vessel_grades |-> vessel_grades,
              dominant_vessel |-> CadRads_find_dominant_vessel(ls),
              recommendation |-> overall_grade,
              follow_up |-> overall_grade]

\* _assess_risk_level
CadRads_assess_risk_level(grade, p) ==
    LET base_risk == IF grade >= 4 THEN "high"
                     ELSE IF grade = 3 THEN "intermediate"
                     ELSE "low"
        risk_factors ==
              (IF p.diabetes THEN 1 ELSE 0)
            + (IF p.hypertension THEN 1 ELSE 0)
            + (IF p.age >= 65 THEN 1 ELSE 0)
            + (IF p.gender = "male" THEN 1 ELSE 0)
    IN  IF risk_factors >= 3 /\ base_risk = "low" THEN "intermediate"
        ELSE IF risk_factors >= 2 /\ base_risk = "intermediate" THEN "high"
        ELSE base_risk

\* CadRadsCalculator.get_detailed_report; clinical_significance is a text
\* looked up by the overall grade
CadRads_get_detailed_report(p, ls) ==
    LET result == CadRads_calculate(p, ls)
    IN  [cadrads_result |-> result,
         lesion_analysis |->
             [i \in DOMAIN ls |->
                 [vessel |-> ls[i].vessel,
                  stenosis_percent |-> ls[i].stenosis_percent,
                  grade |-> CadRads_stenosis_to_grade(ls[i].stenosis_percent),
                  location |-> ls[i].location]],
         risk_assessment |-> CadRads_assess_risk_level(result.overall_grade, p),
         clinical_significance |-> result.overall_grade,
         quality_measures |->
             IF result.overall_grade >= 3 THEN "high" ELSE "standard"]

(***************************************************************************)
(* run_scoring_with_dialog.py                                              *)
(***************************************************************************)
\* the statements of iter_lesions, lines 145 to 174, each with the line it
\* starts on, its indentation and its kind
IterLesionsBlock ==
    <<[line |-> 145, indent |-> 4, stmt |-> "for"],
      [line |-> 146, indent |-> 8, stmt |-> "try"],
      [line |-> 147, indent |-> 12, stmt |-> "assign"],
      [line |-> 148, indent |-> 12, stmt |-> "if"],
      [line |-> 149, indent |-> 16, stmt |-> "raise"],
      [line |-> 150, indent |-> 12, stmt |-> "assign"],
      [line |-> 151, indent |-> 12, stmt |-> "assign"],
      [line |-> 153, indent |-> 8, stmt |-> "for"],
      [line |-> 154, indent |-> 12, stmt |-> "if"],
      [line |-> 155, indent |-> 16, stmt |-> "continue"],
      [line |-> 157, indent |-> 12, stmt |-> "assign"],
      [line |-> 158, indent |-> 12, stmt |-> "if"],
      [line |-> 159, indent |-> 16, stmt |-> "continue"],
      [line |-> 160, indent |-> 12, stmt |-> "if"],
      [line |-> 161, indent |-> 16, stmt |-> "continue"],
      [line |-> 163, indent |-> 12, stmt |-> "yield"],
      [line |-> 171, indent |-> 8, stmt |-> "except"],
      [line |-> 172, indent |-> 12, stmt |-> "if"],
      [line |-> 173, indent |-> 16, stmt |-> "call"],
      [line |-> 174, indent |-> 12, stmt |-> "continue"]>>

\* Python's grammar for try: the statement that ends the suite of the try
\* at position i stands at the indentation of the try and is an except or a
\* finally clause
Python_try_has_handler(block, i) ==
    LET after == {j \in DOMAIN block :
                     j > i /\ block[j].indent <= block[i].indent}
    IN  /\ after # {}
        /\ LET j == CHOOSE k \in after : \A m \in after : k <= m
           IN  /\ block[j].indent = block[i].indent
               /\ block[j].stmt \in {"except", "finally"}

\* the block compiles as far as its try statements go
Python_compiles(block) ==
    \A i \in DOMAIN block :
        block[i].stmt = "try" => Python_try_has_handler(block, i)

\* what loading run_scoring_with_dialog.py comes to, as a script or through
\* an import: the file is compiled as a whole before its first statement
\* runs
run_scoring_with_dialog_load ==
    IF Python_compiles(IterLesionsBlock) THEN "loaded" ELSE "SyntaxError"

(***************************************************************************)
(* The patients and lesions the specifications draw from.                  *)
(***************************************************************************)
\* the patient of tests/test_integration.py test_multi_calculator_report
MultiPatient ==
    [PatientData(68, "male") EXCEPT !.diabetes = TRUE, !.hypertension = TRUE,
                                    !.ejection_fraction = 450]

\* the lesions of the test suite's scenarios
LAD_proximal_75 == Lesion("LAD", "proximal", 7500)

LCX_proximal_90_calcified ==
    [Lesion("LCX", "proximal", 9000) EXCEPT !.is_calcified = TRUE]

RCA_mid_60 == Lesion("RCA", "mid", 6000)

LAD_proximal_90_bifurcation_calcified ==
    [Lesion("LAD", "proximal", 9000) EXCEPT !.is_bifurcation = TRUE,
                                            !.is_calcified = TRUE]

LCX_proximal_75_length_25 ==
    [Lesion("LCX", "proximal", 7500) EXCEPT !.length_mm = 250]

RCA_mid_100_cto == [Lesion("RCA", "mid", 10000) EXCEPT !.is_cto = TRUE]

RCA_proximal_100_cto ==
    [Lesion("RCA", "proximal", 10000) EXCEPT !.is_cto = TRUE]

LM_proximal_70 == Lesion("LM", "proximal", 7000)

LAD_proximal_90 == Lesion("LAD", "proximal", 9000)

TestPatients == {PatientData(65, "male"), MultiPatient}

TestLesions ==
    {LAD_proximal_75, LCX_proximal_90_calcified, RCA_mid_60,
     LAD_proximal_90_bifurcation_calcified, LCX_proximal_75_length_25,
     RCA_mid_100_cto, LM_proximal_70, LAD_proximal_90}

\* stenosis values on and next to every threshold of the SYNTAX calculator
SyntaxStenoses ==
    {0, 3000, 4999, 5000, 6000, 6999, 7000, 8999, 9000, 9899, 9900, 10000}

SyntaxLesions ==
    {Lesion("LAD", "proximal", st) : st \in SyntaxStenoses}
    \cup {Lesion(v, loc, 7500) : v \in {"LM", "LAD", "LCX", "RCA", "OM"},
                                 loc \in StenosisLocation}
    \cup {Lesion("LM", "proximal", 10000), Lesion("PLV", "distal", 5000),
          LAD_proximal_90_bifurcation_calcified, LCX_proximal_75_length_25,
          LCX_proximal_90_calcified, RCA_proximal_100_cto,
          [Lesion("LAD", "proximal", 6000) EXCEPT !.is_bifurcation = TRUE],
          [Lesion("LAD", "mid", 5000) EXCEPT !.is_ostial = TRUE,
                                             !.thrombus_present = TRUE],
          [Lesion("RCA", "distal", 4999) EXCEPT !.is_tortuous = TRUE,
                                                !.length_mm = 300],
          [Lesion("RCA", "distal", 8000) EXCEPT !.is_tortuous = TRUE,
                                                !.length_mm = 200],
          [Lesion("D", "proximal", 8000) EXCEPT !.segment_id = 10],
          [Lesion("LAD", "proximal", 8000) EXCEPT !.segment_id = 17],
          [Lesion("LCX", "mid", 9500) EXCEPT !.segment_id = 0]}

\* stenosis values over [0, 100] in steps of 0.5 %, with 0.01 % and 25.01 %
StenosisGrid == {k * 50 : k \in 0..200} \cup {1, 2501}

\* stenosis values on and next to every threshold of the Gensini calculator
GensiniStenoses ==
    {0, 1, 2500, 2501, 5000, 5001, 7500, 7501, 9000, 9001, 9900, 9901, 10000}

GensiniLesions ==
    {Lesion("LAD", "proximal", st) : st \in GensiniStenoses}
    \cup {Lesion(v, loc, 8000) : v \in VesselType, loc \in StenosisLocation}
    \cup {[Lesion("LAD", "proximal", 6000) EXCEPT !.segment_id = 8],
          [Lesion("D", "proximal", 10000) EXCEPT !.segment_id = 10],
          [Lesion("LCX", "distal", 9500) EXCEPT !.segment_id = 17],
          [Lesion("LM", "proximal", 10000) EXCEPT !.segment_id = 0]}

\* stenosis values on, next to and between the CAD-RADS grade ranges
CadRadsStenoses ==
    {0, 50, 100, 2400, 2450, 2500, 4900, 4950, 5000, 6900, 7000, 9900,
     9950, 10000}

CadRadsLesions ==
    {Lesion("LAD", "proximal", st) : st \in CadRadsStenoses}
    \cup {Lesion(v, "proximal", st) : v \in VesselType,
                                      st \in {3000, 7000, 9000}}

\* lesions whose vessel scores tie, or win only as a sum over two lesions
DominantLesions ==
    {Lesion(v, "proximal", st) : v \in {"LM", "LAD", "LCX", "RCA", "OM", "PLV"},
                                 st \in {6000, 10000}}
    \cup {LAD_proximal_75, LM_proximal_70, LAD_proximal_90}

\* lesions whose SYNTAX totals lie on and around the risk boundaries
RiskLesions ==
    {Lesion("LAD", "proximal", 9900), Lesion("LM", "proximal", 10000),
     Lesion("LM", "proximal", 7500), LAD_proximal_90, LAD_proximal_75,
     [Lesion("LAD", "proximal", 6000) EXCEPT !.is_bifurcation = TRUE],
     RCA_proximal_100_cto, RCA_mid_60, Lesion("LAD", "distal", 3000)}

\* patients on and next to every threshold of _calculate_clinical_score
ClinicalPatients ==
    {[PatientData(a, g) EXCEPT !.diabetes = d, !.creatinine_mg_dl = c,
                               !.ejection_fraction = ef] :
        a \in {59, 60, 69, 70, 79, 80}, g \in Gender, d \in BOOLEAN,
        c \in {None, 20, 21}, ef \in {None, 0, 490, 500}}

\* lesions below and above 50 %, one of them on segment 16 (weight 0.5)
ClinicalLesions ==
    {LAD_proximal_75, Lesion("LAD", "proximal", 5000),
     Lesion("LAD", "proximal", 3000),
     [Lesion("PLV", "distal", 5000) EXCEPT !.segment_id = 16]}

(***************************************************************************)
(* The state machine.                                                      *)
(***************************************************************************)
\* PatientData(...) of one of `patients`, with no lesion yet
construct(patients) ==
    /\ patient \in patients
    /\ lesions = <<>>
    /\ calls = <<>>

\* PatientData.add_lesion of a lesion of `pool`; the values returned for the
\* patient as it was are no longer those of this patient
add_lesion(pool, max) ==
    /\ Len(lesions) < max
    /\ \E lesion \in pool : lesions' = Append(lesions, lesion)
    /\ calls' = <<>>
    /\ UNCHANGED patient

\* a call that consumes the lesion list it scores
call_of_consuming(op, value, max) ==
    /\ Len(calls) < max
    /\ calls' = Append(calls, [op |-> op, value |-> value])
    /\ lesions' = <<>>
    /\ UNCHANGED patient

\* a call, one of at most `max`, of a calculator method returning `value`
call_of(op, value, max) ==
    /\ Len(calls) < max
    /\ calls' = Append(calls, [op |-> op, value |-> value])
    /\ UNCHANGED <<patient, lesions>>

\* a call of a calculator entry point returning `value`
call(op, value) == call_of(op, value, MaxCalls)

SyntaxCalculate == call("syntax.calculate", Syntax_calculate(patient, lesions))

SyntaxReport ==
    call("syntax.get_detailed_report",
         Syntax_get_detailed_report(patient, lesions))

GensiniCalculate ==
    call("gensini.calculate", Gensini_calculate(patient, lesions))

GensiniReport ==
    call("gensini.get_detailed_report",
         Gensini_get_detailed_report(patient, lesions))

CadRadsCalculate ==
    call("cadrads.calculate", CadRads_calculate(patient, lesions))

CadRadsReport ==
    call("cadrads.get_detailed_report",
         CadRads_get_detailed_report(patient, lesions))

\* the scores tests/test_syntax_calculator.py hands to _get_risk_category
RiskScores == {1500, 2200, 2210, 2500, 3200, 3210, 3500}

\* a direct call of SyntaxCalculator._get_risk_category
SyntaxRiskCategory ==
    \E score \in RiskScores :
        call("syntax._get_risk_category",
             [score |-> score,
              risk_category |-> Syntax_get_risk_category(score)])

\* a direct call of GensiniCalculator._get_stenosis_score
GensiniStenosisScore ==
    \E stenosis_percent \in StenosisGrid :
        call("gensini._get_stenosis_score",
             [stenosis_percent |-> stenosis_percent,
              score |-> Gensini_get_stenosis_score(stenosis_percent)])

\* a direct call of CadRadsCalculator._stenosis_to_grade
CadRadsStenosisToGrade ==
    \E stenosis_percent \in StenosisGrid :
        call_of("cadrads._stenosis_to_grade",
                [stenosis_percent |-> stenosis_percent,
                 grade |-> CadRads_stenosis_to_grade(stenosis_percent)],
                MaxGradeCalls)

\* calculate called again, after any other calls, on the same patient
SyntaxCalculateAgain ==
    call_of("syntax.calculate", Syntax_calculate(patient, lesions),
            MaxRepeatCalls)

GensiniCalculateAgain ==
    call_of("gensini.calculate", Gensini_calculate(patient, lesions),
            MaxRepeatCalls)

CadRadsCalculateAgain ==
    call_of("cadrads.calculate", CadRads_calculate(patient, lesions),
            MaxRepeatCalls)

\* a validator that forgets the upper bound
Lesion_validate_stenosis_percent_unbounded(v) == 0 <= v

\* Field(..., ge=0, le=100) and validate_stenosis_percent, of a value in
\* hundredths
Lesion_validate_stenosis_percent(v) == 0 <= v /\ v <= 10000

\* Field(..., ge=0, le=150) and validate_age
PatientData_validate_age(v) == 0 <= v /\ v <= 150

\* Field(None, ge=0, le=100) and validate_ejection_fraction, of a value in
\* tenths
PatientData_validate_ejection_fraction(v) ==
    v = None \/ (0 <= v /\ v <= 1000)

\* stenosis_percent arguments on and next to both bounds
RawStenoses == {0 - 1, 0, 10000, 10001}

\* age arguments on and next to both bounds
RawAges == {0 - 1, 0, 150, 151}

\* ejection_fraction arguments on and next to both bounds; -0.2 stands for
\* the values below 0
RawEjectionFractions == {None, 0 - 2, 0, 1000, 1001}

\* Lesion(vessel=LAD, stenosis_percent=v, location=PROXIMAL), handed to
\* add_lesion when it is constructed; a ValueError creates no object
NewLesion ==
    /\ Len(calls) < MaxConstructions
    /\ \E v \in RawStenoses :
           IF Lesion_validate_stenosis_percent(v)
           THEN /\ lesions' = Append(lesions, Lesion("LAD", "proximal", v))
                /\ calls' = Append(calls,
                       [op |-> "Lesion",
                        value |-> [stenosis_percent |-> v, raised |-> FALSE]])
           ELSE /\ lesions' = lesions
                /\ calls' = Append(calls,
                       [op |-> "Lesion",
                        value |-> [stenosis_percent |-> v, raised |-> TRUE]])
    /\ UNCHANGED patient

\* PatientData(age=a, gender=MALE, ejection_fraction=ef), which replaces
\* the patient at hand when it is constructed; a ValueError creates no object
NewPatientData ==
    /\ Len(calls) < MaxConstructions
    /\ \E a \in RawAges, ef \in RawEjectionFractions :
           IF PatientData_validate_age(a)
              /\ PatientData_validate_ejection_fraction(ef)
           THEN /\ patient' = [PatientData(a, "male")
                                  EXCEPT !.ejection_fraction = ef]
                /\ lesions' = <<>>
                /\ calls' = Append(calls,
                       [op |-> "PatientData",
                        value |-> [age |-> a, ejection_fraction |-> ef,
                                   raised |-> FALSE]])
           ELSE /\ UNCHANGED <<patient, lesions>>
                /\ calls' = Append(calls,
                       [op |-> "PatientData",
                        value |-> [age |-> a, ejection_fraction |-> ef,
                                   raised |-> TRUE]])

\* the sequences over S of length lo to hi
SeqsOf(S, lo, hi) == UNION {[1..n -> S] : n \in lo..hi}

\* input files: one that reads and has its columns, one that lacks a
\* required column, one that cannot be read
FileKinds == {"ok", "missing_column", "unreadable"}

\* the subjid cells of an input table; "" is a blank cell, "NaN" an empty one
SubjIds == {"P1", "P2", "P3"}

\* rows of an input table: subjid and the text of one segment column
InputRows ==
    [subjid : {"P1", "P2", "", "NaN"}, segment : {"70%", "CTO", ""}]

\* lesion records as iter_lesions would yield them
LesionRecords ==
    [patient_id : {"P1", "P2"}, age : {60, 70},
     stenosis_percent : {5000, 9000}]

\* python run_scoring_with_dialog.py with `files` selected in the dialog:
\* the script does not compile, the interpreter prints the SyntaxError and
\* exits with status 1 before main is entered
ScriptMain ==
    /\ run_scoring_with_dialog_load = "SyntaxError"
    /\ \E files \in SeqsOf(FileKinds, 1, MaxFiles) :
           call("run_scoring_with_dialog.main",
                [files |-> files, attempted |-> <<>>, written |-> <<>>,
                 error_summaries |-> <<>>, raised |-> "SyntaxError",
                 exit |-> 1])

\* the same run with one readable file of the rows `rows`
ScriptMainRows ==
    /\ run_scoring_with_dialog_load = "SyntaxError"
    /\ \E rows \in SeqsOf(InputRows, 1, MaxRows) :
           call("run_scoring_with_dialog.main.rows",
                [rows |-> rows, reported |-> <<>>, merged |-> <<>>,
                 raised |-> "SyntaxError", exit |-> 1])

\* import run_scoring_with_dialog, to call merge_scores(df, agg) on a table
\* with the subjid column `df` and score records for the identifiers `agg`:
\* the import raises, no function of the module exists
ScriptMergeScores ==
    /\ run_scoring_with_dialog_load = "SyntaxError"
    /\ \E df \in SeqsOf(SubjIds, 1, MaxRows), agg \in SUBSET SubjIds :
           call("run_scoring_with_dialog.merge_scores",
                [df |-> df, agg |-> agg, merged |-> <<>>,
                 raised |-> "SyntaxError"])

\* rows of a table in the wide layout: subjid and the text of one column of
\* SEGMENT_COLUMN_MAP ("zhengchang" is 正常, a statement that parses to 0)
SegmentRows ==
    [subjid : {"P1", "", "NaN"},
     segment : {"70%", "zhengchang", "x", ""}]

\* import run_scoring_with_dialog, to call iter_lesions(df, include_zero,
\* stsex_map) on the rows `rows`
ScriptIterLesions ==
    /\ run_scoring_with_dialog_load = "SyntaxError"
    /\ \E rows \in SeqsOf(SegmentRows, 1, MaxRows) :
           call("run_scoring_with_dialog.iter_lesions",
                [rows |-> rows, lesions |-> <<>>, raised |-> "SyntaxError"])

\* import run_scoring_with_dialog, to call aggregate_scores(lesions)
ScriptAggregateScores ==
    /\ run_scoring_with_dialog_load = "SyntaxError"
    /\ \E records \in SeqsOf(LesionRecords, 1, MaxRows) :
           call("run_scoring_with_dialog.aggregate_scores",
                [lesions |-> records, aggregated |-> <<>>,
                 raised |-> "SyntaxError"])

(***************************************************************************)
(* Strings.  A str is the sequence of its characters; a CJK character is   *)
(* one element, written as its reading (xia zhai for 狭窄).                *)
(***************************************************************************)
\* a in b, of two str
Str_in(a, b) ==
    \E i \in 0..(Len(b) - Len(a)) : SubSeq(b, i + 1, i + Len(a)) = a

\* any(k in s for k in keywords)
Str_any_in(keywords, s) == \E k \in keywords : Str_in(k, s)

\* the decimal digits
Digits == <<"0", "1", "2", "3", "4", "5", "6", "7", "8", "9">>

\* int(c) of a digit
Str_digit(c) == (CHOOSE i \in DOMAIN Digits : Digits[i] = c) - 1

\* c.isdigit()
Str_isdigit(c) == \E i \in DOMAIN Digits : Digits[i] = c

\* re.findall(r"\d+\.?\d*", s) of a text without a decimal point: the runs
\* of digits, as numbers; cur is the run being read, None outside a run
RECURSIVE re_findall_numbers(_, _, _, _)
re_findall_numbers(s, i, cur, acc) ==
    IF i > Len(s)
    THEN (IF cur = None THEN acc ELSE Append(acc, cur))
    ELSE IF Str_isdigit(s[i])
    THEN re_findall_numbers(s, i + 1,
             (IF cur = None THEN 0 ELSE cur) * 10 + Str_digit(s[i]), acc)
    ELSE re_findall_numbers(s, i + 1, None,
             IF cur = None THEN acc ELSE Append(acc, cur))

(***************************************************************************)
(* run_scoring_with_dialog.py, lines 65-136: the normalisers defined       *)
(* before the block of iter_lesions, as their bodies read.                 *)
(***************************************************************************)
\* the words of the source: 狭窄, 闭塞, 无狭窄, 未见狭窄, 正常, 完全闭塞, 重度,
\* 严重, 中度, 轻度
Zh ==
    [xiazhai |-> <<"xia", "zhai">>,
     bise |-> <<"bi", "se">>,
     wu_xiazhai |-> <<"wu", "xia", "zhai">>,
     weijian_xiazhai |-> <<"wei", "jian", "xia", "zhai">>,
     zhengchang |-> <<"zheng", "chang">>,
     wanquan_bise |-> <<"wan", "quan", "bi", "se">>,
     zhongdu |-> <<"zhong4", "du">>,
     yanzhong |-> <<"yan", "zhong4">>,
     zhongdu1 |-> <<"zhong1", "du">>,
     qingdu |-> <<"qing", "du">>]

\* STENOSIS_KEYWORDS: 狭窄 闭塞 堵塞 阻塞 病变 肌桥 正常 未见狭窄 无狭窄
STENOSIS_KEYWORDS ==
    {Zh.xiazhai, Zh.bise, <<"du3", "se">>, <<"zu", "se">>, <<"bing", "bian">>,
     <<"ji", "qiao">>, Zh.zhengchang, Zh.weijian_xiazhai, Zh.wu_xiazhai}

\* extract_stenosis_percent(text) of a str (the empty str too); the result
\* in hundredths of a percent, None for None
extract_stenosis_percent(s) ==
    LET has_percent == Str_in(<<"%">>, s)
        has_keyword == Str_any_in(STENOSIS_KEYWORDS, s)
        numbers == re_findall_numbers(s, 1, None, <<>>)
    IN  IF s = <<>> THEN None
        ELSE IF ~has_percent /\ ~has_keyword THEN None
        ELSE IF Str_any_in({Zh.wu_xiazhai, Zh.zhengchang,
                            Zh.weijian_xiazhai}, s) THEN 0
        ELSE IF Str_any_in({Zh.wanquan_bise, Zh.bise, <<"1", "0", "0", "%">>,
                            <<"C", "T", "O">>}, s) THEN 10000
        ELSE IF Str_in(Zh.zhongdu, s) \/ Str_in(Zh.yanzhong, s) THEN 9000
        ELSE IF Str_in(Zh.zhongdu1, s) THEN 7000
        ELSE IF Str_in(Zh.qingdu, s) THEN 5000
        ELSE IF numbers = <<>> THEN None
        ELSE 100 * Max({numbers[i] : i \in DOMAIN numbers})

\* the phrases of the cells: markers, adjectives, numbers, units
Phrases ==
    {Zh.xiazhai, Zh.wu_xiazhai, Zh.bise, <<"C", "T", "O">>,
     Zh.zhongdu, Zh.zhongdu1, Zh.qingdu,
     <<"3", "0">>, <<"8", "0">>, <<"1", "0", "0">>, <<"1", "5", "0">>,
     <<"%">>, <<"-">>, <<"m", "m">>}

\* str.join of a sequence of str
RECURSIVE Str_join(_)
Str_join(xs) == IF xs = <<>> THEN <<>> ELSE Head(xs) \o Str_join(Tail(xs))

\* a call of extract_stenosis_percent on the text of a cell
ExtractStenosisPercent ==
    \E phrases \in SeqsOf(Phrases, 0, MaxPhrases) :
        call("extract_stenosis_percent",
             [text |-> Str_join(phrases),
              stenosis |-> extract_stenosis_percent(Str_join(phrases))])

(***************************************************************************)
(* 智能转换器.py: IntelligentExcelConverter.                                 *)
(***************************************************************************)
\* str.lower() and str.upper() of a character
Str_lower_char(c) ==
    CASE c = "A" -> "a" [] c = "D" -> "d" [] c = "F" -> "f" [] c = "L" -> "l"
      [] c = "M" -> "m" [] c = "O" -> "o" [] c = "P" -> "p" [] c = "V" -> "v"
      [] c = "C" -> "c" [] c = "R" -> "r" [] c = "X" -> "x" [] c = "E" -> "e"
      [] OTHER -> c

Str_upper_char(c) ==
    CASE c = "a" -> "A" [] c = "d" -> "D" [] c = "f" -> "F" [] c = "l" -> "L"
      [] c = "m" -> "M" [] c = "o" -> "O" [] c = "p" -> "P" [] c = "v" -> "V"
      [] c = "c" -> "C" [] c = "r" -> "R" [] c = "x" -> "X" [] c = "e" -> "E"
      [] OTHER -> c

Str_lower(str) == [i \in DOMAIN str |-> Str_lower_char(str[i])]

Str_upper(str) == [i \in DOMAIN str |-> Str_upper_char(str[i])]

\* str.strip(): without its leading and trailing blanks
RECURSIVE Str_strip(_)
Str_strip(str) ==
    IF str = <<>> THEN str
    ELSE IF Head(str) = " " THEN Str_strip(Tail(str))
    ELSE IF str[Len(str)] = " " THEN Str_strip(SubSeq(str, 1, Len(str) - 1))
    ELSE str

\* field_mapping, its first three fields in the order of the dictionary,
\* each with its ASCII aliases
field_mapping ==
    <<[field |-> "patient_id",
       possible_names |-> <<<<"p", "a", "t", "i", "e", "n", "t", "_", "i", "d">>, <<"p", "a", "t", "i", "e", "n", "t", "i", "d">>, <<"i", "d">>,
                            <<"c", "a", "s", "e", "_", "i", "d">>, <<"n", "o">>>>],
      [field |-> "age",
       possible_names |-> <<<<"a", "g", "e">>, <<"y", "r">>>>],
      [field |-> "gender",
       possible_names |-> <<<<"g", "e", "n", "d", "e", "r">>, <<"s", "e", "x">>>>]>>

\* a score of analyze_columns, in 1/2520 of a point: the lengths are at
\* most 10, so len(possible_clean) / len(col_clean) * 80 is a whole number
Score_points(points) == points * 2520
Score_contained(possible_clean, col_clean) ==
    (Len(possible_clean) * 80 * 2520) \div Max({Len(col_clean), 1})

\* the loop over possible_names for one column, from the k-th name on; an
\* exact match ends it
RECURSIVE analyze_columns_names(_, _, _, _, _)
analyze_columns_names(col, col_clean, possible_names, k, best) ==
    IF k > Len(possible_names) THEN best
    ELSE LET possible_clean == Str_strip(Str_lower(possible_names[k]))
         IN  IF col_clean = possible_clean
             THEN [match |-> <<col>>, score |-> Score_points(100)]
             ELSE IF Str_in(possible_clean, col_clean)
                     \/ Str_in(col_clean, possible_clean)
             THEN analyze_columns_names(col, col_clean, possible_names, k + 1,
                      IF Score_contained(possible_clean, col_clean)
                             > best.score
                      THEN [match |-> <<col>>,
                            score |-> Score_contained(possible_clean,
                                                      col_clean)]
                      ELSE best)
             ELSE analyze_columns_names(col, col_clean, possible_names, k + 1,
                                        best)

\* the columns a mapping has claimed: column_mapping.values()
Mapped(column_mapping) ==
    {column_mapping[i].column : i \in DOMAIN column_mapping}

\* the loop over available_columns for one field, from the j-th column on;
\* best.match is <<>> for None and <<col>> for a column
RECURSIVE analyze_columns_cols(_, _, _, _, _)
analyze_columns_cols(possible_names, available_columns, j, claimed, best) ==
    IF j > Len(available_columns) THEN best
    ELSE LET col == available_columns[j]
         IN  IF col \in claimed
             THEN analyze_columns_cols(possible_names, available_columns,
                                       j + 1, claimed, best)
             ELSE analyze_columns_cols(possible_names, available_columns,
                      j + 1, claimed,
                      analyze_columns_names(col, Str_strip(Str_lower(col)),
                                            possible_names, 1, best))

\* the same loop without the test of column_mapping.values()
analyze_columns_field_unclaimed(possible_names, columns, column_mapping) ==
    analyze_columns_cols(possible_names, columns, 1, {},
                         [match |-> <<>>, score |-> 0])

\* best_match and best_score of one field
analyze_columns_field(possible_names, columns, column_mapping) ==
    analyze_columns_cols(possible_names, columns, 1,
                         Mapped(column_mapping),
                         [match |-> <<>>, score |-> 0])

\* the loop over field_mapping, from the i-th field on; column_mapping is the
\* sequence of its items, in insertion order, each with the score it had
RECURSIVE analyze_columns_fields(_, _, _)
analyze_columns_fields(available_columns, i, column_mapping) ==
    IF i > Len(field_mapping) THEN column_mapping
    ELSE LET best == analyze_columns_field(field_mapping[i].possible_names,
                                           available_columns, column_mapping)
         IN  analyze_columns_fields(available_columns, i + 1,
                 IF best.match # <<>> /\ best.match[1] # <<>>
                    /\ best.score > Score_points(50)
                 THEN Append(column_mapping,
                             [field |-> field_mapping[i].field,
                              column |-> best.match[1],
                              score |-> best.score])
                 ELSE column_mapping)

\* analyze_columns(df), of the names df.columns
analyze_columns(columns) ==
    analyze_columns_fields([j \in DOMAIN columns |-> Str_strip(columns[j])],
                           1, <<>>)

\* names of input columns
ColumnNames ==
    {<<"s", "e", "x">>, <<"x">>, <<"a", "g", "e">>, <<"A", "g", "e", " ">>,
     <<"a">>, <<"z", "z">>}

\* a call of analyze_columns on a table with distinct column names
AnalyzeColumns ==
    \E columns \in SeqsOf(ColumnNames, 1, MaxColumns) :
        /\ \A i, j \in DOMAIN columns : columns[i] = columns[j] => i = j
        /\ call("analyze_columns",
                [columns |-> columns,
                 column_mapping |-> analyze_columns(columns)])

\* vessel_standardization, in the order of the dictionary, each vessel with
\* its short ASCII variants
vessel_standardization ==
    <<[standard_name |-> "LM",
       variants |-> <<<<"L", "M">>, <<"L", "M", "C", "A">>>>],
      [standard_name |-> "LAD",
       variants |-> <<<<"L", "A", "D">>, <<"L", "A", "D", "C", "A">>>>],
      [standard_name |-> "LCX",
       variants |-> <<<<"L", "C", "X">>, <<"L", "C", "X", "C", "A">>>>],
      [standard_name |-> "RCA",
       variants |-> <<<<"R", "C", "A">>, <<"R", "C", "C", "A">>>>],
      [standard_name |-> "OM",
       variants |-> <<<<"O", "M">>, <<"O", "M", "1">>, <<"O", "M", "2">>>>],
      [standard_name |-> "D",
       variants |-> <<<<"D">>, <<"D", "1">>, <<"D", "2">>>>],
      [standard_name |-> "PDA",
       variants |-> <<<<"P", "D", "A">>>>],
      [standard_name |-> "PLV",
       variants |-> <<<<"P", "L", "V">>>>]>>

\* the first pair (i, k), in the order of the two loops, whose variant
\* contains vessel_str or is contained in it; <<>> when there is none
vessel_first_match(vessel_str) ==
    LET hit(i, k) ==
            LET variant == Str_upper(vessel_standardization[i].variants[k])
            IN  Str_in(variant, vessel_str) \/ Str_in(vessel_str, variant)
        hits == {ik \in UNION {{<<i, k>> :
                                   k \in DOMAIN
                                       vessel_standardization[i].variants} :
                               i \in DOMAIN vessel_standardization} :
                    hit(ik[1], ik[2])}
    IN  IF hits = {} THEN <<>>
        ELSE CHOOSE ik \in hits :
                 \A o \in hits :
                     ik[1] < o[1] \/ (ik[1] = o[1] /\ ik[2] <= o[2])

\* standardize_vessel_name(vessel_value); value.isna stands for pd.isna
standardize_vessel_name(vessel_value) ==
    LET vessel_str == Str_upper(Str_strip(vessel_value.str))
        first == vessel_first_match(vessel_str)
    IN  IF vessel_value.isna THEN "LAD"
        ELSE IF first # <<>>
        THEN vessel_standardization[first[1]].standard_name
        ELSE IF Str_in(<<"L", "M">>, vessel_str) THEN "LM"
        ELSE IF Str_in(<<"L", "A", "D">>, vessel_str) THEN "LAD"
        ELSE IF Str_in(<<"L", "C", "X">>, vessel_str) THEN "LCX"
        ELSE IF Str_in(<<"R", "C", "A">>, vessel_str) THEN "RCA"
        ELSE "LAD"

\* gender_standardization, in the order of the dictionary: 男 男性 male M m 1
\* and 女 女性 female F f 0
gender_standardization ==
    <<[standard_gender |-> "male",
       variants |-> <<<<"nan">>, <<"nan", "xing">>, <<"m", "a", "l", "e">>,
                      <<"M">>, <<"m">>, <<"1">>>>],
      [standard_gender |-> "female",
       variants |-> <<<<"nv">>, <<"nv", "xing">>,
                      <<"f", "e", "m", "a", "l", "e">>, <<"F">>, <<"f">>,
                      <<"0">>>>]>>

\* standardize_gender(gender_value): the first standard gender, in the order
\* of the dictionary, with a variant containing gender_str or contained in it
standardize_gender(gender_value) ==
    LET gender_str == Str_strip(gender_value.str)
        hit(i) == \E k \in DOMAIN gender_standardization[i].variants :
                      LET variant == gender_standardization[i].variants[k]
                      IN  Str_in(variant, gender_str)
                              \/ Str_in(gender_str, variant)
    IN  IF gender_value.isna THEN "male"
        ELSE IF hit(1) THEN gender_standardization[1].standard_gender
        ELSE IF hit(2) THEN gender_standardization[2].standard_gender
        ELSE "male"

\* DEFAULT_STSEX_MAP of run_scoring_with_dialog.py: its items
DEFAULT_STSEX_MAP ==
    {<<<<"1">>, "male">>, <<<<"2">>, "female">>, <<<<"m">>, "male">>,
     <<<<"m", "a", "l", "e">>, "male">>, <<<<"nan">>, "male">>,
     <<<<"nan", "xing">>, "male">>, <<<<"f">>, "female">>,
     <<<<"f", "e", "m", "a", "l", "e">>, "female">>, <<<<"nv">>, "female">>,
     <<<<"nv", "xing">>, "female">>}

\* load_stsex_map(): the items of stsex_mapping.json, keys and values
\* stripped and lower-cased, when the file is there (config.present), else
\* the default table
load_stsex_map(config) ==
    IF ~config.present THEN DEFAULT_STSEX_MAP
    ELSE {<<Str_strip(Str_lower(kv[1])), kv[2]>> : kv \in config.data}

\* normalize_gender(value, stsex_map): stsex_map.get(value_str, "male")
normalize_gender(value, stsex_map) ==
    LET value_str == Str_lower(Str_strip(value.str))
        found == {kv \in stsex_map : kv[1] = value_str}
    IN  IF value.isna THEN "male"
        ELSE IF found = {} THEN "male"
        ELSE (CHOOSE kv \in found : TRUE)[2]

\* the value of a cell: a str, or missing (NaN)
Cell(str) == [isna |-> FALSE, str |-> str]
NaN == [isna |-> TRUE, str |-> <<>>]

\* vessel cells: the canonical codes in upper and lower case, other variants,
\* the empty str, an unknown name, a missing value
VesselCells ==
    {Cell(vessel_standardization[i].variants[1]) :
        i \in DOMAIN vessel_standardization}
    \cup {Cell(Str_lower(vessel_standardization[i].variants[1])) :
             i \in DOMAIN vessel_standardization}
    \cup {Cell(<<"D", "1">>), Cell(<<" ", "l", "a", "d", " ">>), Cell(<<>>), Cell(<<"X", "Y", "Z">>), NaN}

\* gender cells: the variants of both tables, unknown tokens, a missing
\* value
GenderCells ==
    {Cell(gender_standardization[i].variants[k]) :
        i \in {1, 2}, k \in 1..6}
    \cup {Cell(kv[1]) : kv \in DEFAULT_STSEX_MAP}
    \cup {Cell(<<"F", "e", "m", "a", "l", "e">>), Cell(<<"M", "A", "L", "E">>),
          Cell(<<" ", "F", " ">>), Cell(<<"9">>), Cell(<<"x">>), Cell(<<>>),
          NaN}

\* stsex_mapping.json: absent, or a mapping that contradicts the default
\* table
StsexConfigs ==
    {[present |-> FALSE, data |-> {}],
     [present |-> TRUE, data |-> {<<<<"1">>, "female">>}],
     [present |-> TRUE, data |-> {<<<<"F">>, "male">>, <<<<"m">>, "female">>}]}

\* a call of IntelligentExcelConverter.standardize_vessel_name
StandardizeVesselName ==
    \E vessel_value \in VesselCells :
        call("standardize_vessel_name",
             [vessel_value |-> vessel_value,
              vessel |-> standardize_vessel_name(vessel_value)])

\* a call of IntelligentExcelConverter.standardize_gender
StandardizeGender ==
    \E gender_value \in GenderCells :
        call("standardize_gender",
             [gender_value |-> gender_value,
              gender |-> standardize_gender(gender_value)])

\* a call of normalize_gender with the mapping load_stsex_map returns
NormalizeGender ==
    \E value \in GenderCells, config \in StsexConfigs :
        call("normalize_gender",
             [value |-> value, config |-> config,
              gender |-> normalize_gender(value, load_stsex_map(config))])

(***************************************************************************)
(* cli.py and single_sheet_processor.py: calculate_scores.                 *)
(***************************************************************************)
\* a relative import of `level` dots in a module of the package `package`
\* (its dotted name as a sequence): one dot is the package itself, each
\* further dot its parent, and there is none above the top-level package
Python_relative_import(package, level) ==
    IF level > Len(package) THEN "ImportError" ELSE "loaded"

\* import coronary_score.data_io: line 14 is `from ..models.patient import`
data_io_load == Python_relative_import(<<"coronary_score">>, 2)

\* import coronary_score.cli: lines 13-15 import .models.patient,
\* .calculators and .data_io
cli_load ==
    IF Python_relative_import(<<"coronary_score">>, 1) = "loaded"
    THEN data_io_load ELSE "ImportError"

\* the names single_sheet_processor.py has bound when the body of class
\* SingleSheetProcessor is executed: its imports and the class before it
single_sheet_processor_names ==
    {"pd", "np", "Path", "Dict", "List", "Optional", "Tuple", "Union",
     "traceback", "CoronaryScoreCalculator"}

\* the names the annotations of the methods of SingleSheetProcessor refer
\* to, builtins apart; they are evaluated when the method is defined
single_sheet_processor_annotations ==
    {"Union", "Path", "pd", "List", "PatientData", "Dict", "Tuple"}

\* import single_sheet_processor
single_sheet_processor_load ==
    IF single_sheet_processor_annotations \subseteq single_sheet_processor_names
    THEN "loaded" ELSE "NameError"

\* the calculators of the command line, in the order calculate_scores
\* creates them
CalculatorNames == <<"syntax", "cadrads", "gensini">>

\* calculators of calculate_scores for a --calculator argument
cli_calculators(calculator_type) ==
    SelectSeq(CalculatorNames,
              LAMBDA calc_name : calculator_type \in {calc_name, "all"})

\* patient_result of calculate_scores: an entry per calculator, the report
\* or the error of the calculator that raised
cli_patient_result(patient_, calculators) ==
    [patient_id |-> patient_.patient_id,
     scores |-> [k \in DOMAIN calculators |->
                    [calc_name |-> calculators[k],
                     error |-> calculators[k] \in patient_.raising]]]

\* cli.calculate_scores(patients, calculator_type)
cli_calculate_scores(patients, calculator_type) ==
    [i \in DOMAIN patients |->
        cli_patient_result(patients[i], cli_calculators(calculator_type))]

\* SingleSheetProcessor.calculate_scores(patient_dict): SYNTAX, CAD_RADS and
\* Gensini, each in its own try
SingleSheetProcessor_calculate_scores(patient_dict) ==
    cli_patient_result(patient_dict, CalculatorNames).scores

\* patients of a batch, each with the calculators that raise for it
ScoredPatients ==
    [patient_id : {"P1", "P2"},
     raising : SUBSET {"syntax", "cadrads", "gensini"}]

\* coronary-score with --calculator calculator_type on a file of `patients`:
\* main calls calculate_scores once; the import of the module comes first
CliCalculateScores ==
    \E patients \in SeqsOf(ScoredPatients, 1, MaxPatients),
       calculator_type \in {"syntax", "cadrads", "gensini", "all"} :
        call("cli.calculate_scores",
             [patients |-> patients, calculator_type |-> calculator_type,
              raised |-> IF cli_load = "loaded" THEN "" ELSE cli_load,
              results |-> IF cli_load = "loaded"
                          THEN cli_calculate_scores(patients, calculator_type)
                          ELSE <<>>])

\* import single_sheet_processor, to call
\* SingleSheetProcessor().calculate_scores(patient_dict)
SingleSheetCalculateScores ==
    \E patient_dict \in ScoredPatients :
        call("SingleSheetProcessor.calculate_scores",
             [patient_dict |-> patient_dict,
              raised |-> IF single_sheet_processor_load = "loaded" THEN ""
                         ELSE single_sheet_processor_load,
              scores |-> IF single_sheet_processor_load = "loaded"
                         THEN SingleSheetProcessor_calculate_scores(
                                  patient_dict)
                         ELSE <<>>])

(***************************************************************************)
(* Direct calls of the weight lookups of the calculators.                  *)
(***************************************************************************)
\* lesions of every vessel and location, with and without a segment id
WeightLesions ==
    {[Lesion(v, loc, st) EXCEPT !.segment_id = segment_id] :
        v \in VesselType, loc \in StenosisLocation, st \in {5000, 7500},
        segment_id \in {None, 7, 16}}

\* a direct call of SyntaxCalculator._get_base_score
SyntaxBaseScore ==
    \E lesion \in WeightLesions :
        call("syntax._get_base_score",
             [lesion |-> lesion,
              base_score |-> Syntax_get_base_score(lesion)])

\* a direct call of GensiniCalculator._get_vessel_weight
GensiniVesselWeight ==
    \E lesion \in WeightLesions :
        call("gensini._get_vessel_weight",
             [lesion |-> lesion,
              vessel_weight |-> Gensini_get_vessel_weight(lesion)])

(***************************************************************************)
(* data_io.py and utils/validation.py, read as the bodies of their         *)
(* functions: the objects are those of models/patient.py with the fields   *)
(* patient_id, lesions and morphology added.                               *)
(* The module itself imports `..models.patient`, which reaches beyond the   *)
(* top-level package when it is loaded as coronary_score.data_io; the      *)
(* functions are modelled as they run once that import resolves.           *)
(***************************************************************************)
\* LesionMorphology
LesionMorphology == {"A", "B1", "B2", "C"}

\* None, where a morphology is expected
NoMorphology == "None"

\* str.strip() over the identifiers of the model
Strip(str) == IF str = "P002 " THEN "P002" ELSE str

\* validate_lesion_data: the error messages, by the check that gives them
validate_lesion_data(lesion) ==
    (IF lesion.stenosis_percent < 0 \/ lesion.stenosis_percent > 10000
     THEN {"stenosis_percent"} ELSE {})
    \cup (IF lesion.length_mm # None
             /\ (lesion.length_mm < 0 \/ lesion.length_mm > 2000)
          THEN {"length_mm"} ELSE {})
    \cup (IF lesion.is_cto /\ lesion.stenosis_percent < 9900
          THEN {"is_cto"} ELSE {})
    \cup (IF lesion.thrombus_present /\ lesion.stenosis_percent < 7000
          THEN {"thrombus_present"} ELSE {})

\* validate_patient_data: the error messages, by the check that gives them
validate_patient_data(patient_data) ==
    (IF patient_data.age < 0 \/ patient_data.age > 150
     THEN {"age"} ELSE {})
    \cup (IF patient_data.creatinine_mg_dl # None
             /\ (patient_data.creatinine_mg_dl < 0
                 \/ patient_data.creatinine_mg_dl > 200)
          THEN {"creatinine_mg_dl"} ELSE {})
    \cup (IF patient_data.ejection_fraction # None
             /\ (patient_data.ejection_fraction < 100
                 \/ patient_data.ejection_fraction > 1000)
          THEN {"ejection_fraction"} ELSE {})
    \cup (IF patient_data.lesions = <<>> THEN {"lesions"}
          ELSE UNION {validate_lesion_data(patient_data.lesions[i]) :
                         i \in DOMAIN patient_data.lesions})

\* sanitize_input_data: string values are stripped (gender, lower-cased
\* too, is an enum value and lower case already)
sanitize_input_data(data) ==
    [key \in DOMAIN data |->
        IF key = "patient_id" THEN Strip(data[key]) ELSE data[key]]

\* _parse_lesion_dict: the enum conversions raise ValueError for a value
\* that is no member, None included; the key is there whenever the
\* dictionary comes from Lesion.dict()
DataImporter_parse_lesion_dict(lesion_dict) ==
    IF "morphology" \in DOMAIN lesion_dict
       /\ lesion_dict.morphology \notin LesionMorphology
    THEN [raised |-> "ValueError", lesion |-> lesion_dict]
    ELSE IF ~Lesion_validate_stenosis_percent(lesion_dict.stenosis_percent)
    THEN [raised |-> "ValidationError", lesion |-> lesion_dict]
    ELSE [raised |-> "", lesion |-> lesion_dict]

\* the keys of a patient dictionary but lesions
PatientKeys(patient_dict) == DOMAIN patient_dict \ {"lesions"}

\* _parse_patient_dict: an exception of the lesion loop leaves the method;
\* one of the constructor or of the validation is wrapped in a
\* DataImportError
DataImporter_parse_patient_dict(patient_dict) ==
    LET cleaned_data == sanitize_input_data(patient_dict)
        parsed ==
            IF "lesions" \in DOMAIN cleaned_data
            THEN [i \in DOMAIN cleaned_data.lesions |->
                     DataImporter_parse_lesion_dict(cleaned_data.lesions[i])]
            ELSE <<>>
        lesions_ == [i \in DOMAIN parsed |-> parsed[i].lesion]
        patient_ == [key \in PatientKeys(cleaned_data) |-> cleaned_data[key]]
                        @@ [lesions |-> lesions_]
    IN  IF \E i \in DOMAIN parsed : parsed[i].raised # ""
        THEN [raised |-> parsed[CHOOSE i \in DOMAIN parsed :
                                   /\ parsed[i].raised # ""
                                   /\ \A j \in 1..(i - 1) :
                                          parsed[j].raised = ""].raised,
              patient |-> patient_]
        ELSE IF ~PatientData_validate_age(cleaned_data.age)
                \/ ~PatientData_validate_ejection_fraction(
                        cleaned_data.ejection_fraction)
                \/ validate_patient_data(patient_) # {}
        THEN [raised |-> "DataImportError", patient |-> patient_]
        ELSE [raised |-> "", patient |-> patient_]

\* import_from_file of a JSON list: any exception becomes a DataImportError
\* and nothing is returned
DataImporter_import_from_json(data) ==
    LET parsed == [i \in DOMAIN data |->
                      DataImporter_parse_patient_dict(data[i])]
    IN  IF \E i \in DOMAIN parsed : parsed[i].raised # ""
        THEN [raised |-> "DataImportError", patients |-> <<>>]
        ELSE [raised |-> "",
              patients |-> [i \in DOMAIN parsed |-> parsed[i].patient]]

\* Lesion.dict(): every field is a key, an unset one with the value None
Lesion_dict(lesion) == [key \in DOMAIN lesion |-> lesion[key]]

\* PatientData.dict(): the lesions become dictionaries
PatientData_dict(patient_data) ==
    [key \in DOMAIN patient_data |->
        IF key = "lesions"
        THEN [i \in DOMAIN patient_data.lesions |->
                 Lesion_dict(patient_data.lesions[i])]
        ELSE patient_data[key]]

\* _export_to_json: the list of the patients' dictionaries; json.dump and
\* json.load keep strings, numbers, booleans and None (null) as they are
DataExporter_export_to_json(patients) ==
    [i \in DOMAIN patients |-> PatientData_dict(patients[i])]

\* _parse_dataframe of a sheet: one patient dictionary per row, parsed by
\* _parse_patient_dict; the rows carry no lesions key
DataImporter_parse_dataframe(df) ==
    LET parsed == [i \in DOMAIN df |-> DataImporter_parse_patient_dict(df[i])]
    IN  IF \E i \in DOMAIN parsed : parsed[i].raised # ""
        THEN [raised |-> "DataImportError", patients |-> <<>>]
        ELSE [raised |-> "",
              patients |-> [i \in DOMAIN parsed |-> parsed[i].patient]]

\* the rows of df_lesions of one patient_id, in sheet order, without the
\* patient_id column
RECURSIVE LesionRowsOf(_, _, _)
LesionRowsOf(df_lesions, patient_id, i) ==
    IF i > Len(df_lesions) THEN <<>>
    ELSE IF df_lesions[i].patient_id = patient_id
    THEN <<[key \in DOMAIN df_lesions[i] \ {"patient_id"} |->
               df_lesions[i][key]]>>
             \o LesionRowsOf(df_lesions, patient_id, i + 1)
    ELSE LesionRowsOf(df_lesions, patient_id, i + 1)

\* _merge_lesions_data: every patient gets the lesions parsed from its rows
DataImporter_merge_lesions_data(patients, df_lesions) ==
    [i \in DOMAIN patients |->
        LET lesion_rows ==
                LesionRowsOf(df_lesions, patients[i].patient_id, 1)
        IN  [patients[i] EXCEPT !.lesions =
                @ \o [k \in DOMAIN lesion_rows |->
                         DataImporter_parse_lesion_dict(lesion_rows[k]).lesion]]]

\* _import_from_excel of a workbook with a patients and a lesions sheet:
\* the patients sheet is parsed, and validated, before the lesions are
\* merged
DataImporter_import_from_excel(df_patients, df_lesions) ==
    LET parsed == DataImporter_parse_dataframe(df_patients)
    IN  IF parsed.raised # "" THEN parsed
        ELSE [raised |-> "",
              patients |->
                  DataImporter_merge_lesions_data(parsed.patients, df_lesions)]

\* a Lesion of the LAD, with the morphology m
IoLesion(st, m) == Lesion("LAD", "proximal", st) @@ [morphology |-> m]

\* lesion lists: none, with and without a morphology, and a CTO of 75 %
IoLesionLists ==
    {<<>>,
     <<IoLesion(7500, "A")>>,
     <<IoLesion(7500, "A"), IoLesion(9000, "C")>>,
     <<IoLesion(7500, NoMorphology)>>,
     <<IoLesion(7500, "A"), IoLesion(6000, NoMorphology)>>,
     <<[IoLesion(7500, "B1") EXCEPT !.is_cto = TRUE]>>}

\* valid patients, objects of PatientData
IoPatients ==
    {[PatientData(65, g) EXCEPT !.ejection_fraction = ef]
         @@ [patient_id |-> id, lesions |-> ls] :
        g \in Gender, ef \in {None, 500}, id \in {"P001", "P002 "},
        ls \in IoLesionLists}

\* DataExporter.export_to_file to a JSON file, then
\* DataImporter.import_from_file of that file
ExportImport ==
    \E patients \in SeqsOf(IoPatients, 1, MaxPatients) :
        call("data_io.export_import",
             [exported |-> patients,
              imported |-> DataImporter_import_from_json(
                               DataExporter_export_to_json(patients))])

\* the rows of a patients sheet
PatientRows ==
    {[PatientData(65, "male") EXCEPT !.diabetes = d] @@ [patient_id |-> id] :
        d \in BOOLEAN, id \in {"P1", "P2"}}

\* the rows of a lesions sheet
LesionRows ==
    {IoLesion(st, "A") @@ [patient_id |-> id] :
        st \in {5000, 9000}, id \in {"P1", "P2", "P3"}}

\* DataImporter._import_from_excel of a workbook with both sheets
ImportExcel ==
    \E df_patients \in SeqsOf(PatientRows, 1, MaxPatients),
       df_lesions \in SeqsOf(LesionRows, 0, MaxRows) :
        call("data_io._import_from_excel",
             [df_patients |-> df_patients, df_lesions |-> df_lesions,
              imported |->
                  DataImporter_import_from_excel(df_patients, df_lesions)])

\* the values a calculator entry point has returned for this patient
returned(op) == {calls[k].value : k \in {j \in DOMAIN calls : calls[j].op = op}}

(***************************************************************************)
(* Specifications.                                                         *)
(***************************************************************************)
\* a patient whose attributes no calculate method reads but SYNTAX's
PlainPatients == {PatientData(65, "male")}

AddLesionSyntax == add_lesion(SyntaxLesions, MaxLesions)

InitSyntax == construct(TestPatients)

NextSyntax == AddLesionSyntax \/ SyntaxCalculate

\* the SYNTAX calculator over lesions on every threshold
SpecSyntax == InitSyntax /\ [][NextSyntax]_vars

AddLesionRisk == add_lesion(RiskLesions, MaxScenarioLesions)

InitRisk == construct(TestPatients)

NextRisk == AddLesionRisk \/ SyntaxCalculate \/ SyntaxRiskCategory

\* the SYNTAX risk category over totals on and around its boundaries
SpecRisk == InitRisk /\ [][NextRisk]_vars

AddLesionGensini == add_lesion(GensiniLesions, MaxLesions)

InitGensini == construct(PlainPatients)

NextGensini == AddLesionGensini \/ GensiniCalculate

\* the Gensini calculator over lesions on every threshold
SpecGensini == InitGensini /\ [][NextGensini]_vars

InitGensiniScore == construct(TestPatients)

NextGensiniScore == GensiniStenosisScore

\* GensiniCalculator._get_stenosis_score over the stenosis grid
SpecGensiniScore == InitGensiniScore /\ [][NextGensiniScore]_vars

AddLesionCadRads == add_lesion(CadRadsLesions, MaxLesions)

InitCadRads == construct(PlainPatients)

NextCadRads == AddLesionCadRads \/ CadRadsCalculate

\* the CAD-RADS calculator over lesions on every threshold
SpecCadRads == InitCadRads /\ [][NextCadRads]_vars

AddLesionDominant == add_lesion(DominantLesions, MaxScenarioLesions)

InitDominant == construct(PlainPatients)

NextDominant == AddLesionDominant \/ CadRadsCalculate

\* the CAD-RADS calculator over lesions whose vessel scores compete
SpecDominant == InitDominant /\ [][NextDominant]_vars

InitCadRadsGrade == construct(PlainPatients)

NextCadRadsGrade == CadRadsStenosisToGrade

\* CadRadsCalculator._stenosis_to_grade over the stenosis grid
SpecCadRadsGrade == InitCadRadsGrade /\ [][NextCadRadsGrade]_vars

AddLesionClinical == add_lesion(ClinicalLesions, MaxLesions)

InitClinical == construct(ClinicalPatients)

NextClinical == AddLesionClinical \/ SyntaxCalculate

\* the SYNTAX calculator over patients on every clinical threshold
SpecClinical == InitClinical /\ [][NextClinical]_vars

AddLesionRepeat == add_lesion(TestLesions, MaxLesions)

InitRepeat == construct(TestPatients)

NextRepeat ==
    \/ AddLesionRepeat
    \/ SyntaxCalculateAgain
    \/ GensiniCalculateAgain
    \/ CadRadsCalculateAgain

\* the three calculators called repeatedly, in any order, on one patient
SpecRepeat == InitRepeat /\ [][NextRepeat]_vars

InitConstruct == construct(PlainPatients)

NextConstruct == NewLesion \/ NewPatientData

\* constructor calls with arguments inside and outside the validated ranges
SpecConstruct == InitConstruct /\ [][NextConstruct]_vars

InitScript == construct(PlainPatients)

NextScript ==
    \/ ScriptMain
    \/ ScriptMainRows
    \/ ScriptMergeScores
    \/ ScriptIterLesions
    \/ ScriptAggregateScores

\* run_scoring_with_dialog.py run as a script and imported for its functions
SpecScript == InitScript /\ [][NextScript]_vars

InitDataIo == construct(PlainPatients)

NextDataIo == ExportImport \/ ImportExcel

\* data_io.py: JSON export and import, and the import of a workbook
SpecDataIo == InitDataIo /\ [][NextDataIo]_vars

InitText == construct(PlainPatients)

NextText == ExtractStenosisPercent

\* extract_stenosis_percent over the texts of a cell
SpecText == InitText /\ [][NextText]_vars

InitColumns == construct(PlainPatients)

NextColumns == AnalyzeColumns

\* IntelligentExcelConverter.analyze_columns over small tables
SpecColumns == InitColumns /\ [][NextColumns]_vars

InitNormalize == construct(PlainPatients)

NextNormalize == StandardizeVesselName \/ StandardizeGender \/ NormalizeGender

\* the vessel and gender normalisers over the cells of a table
SpecNormalize == InitNormalize /\ [][NextNormalize]_vars

InitCli == construct(PlainPatients)

NextCli == CliCalculateScores \/ SingleSheetCalculateScores

\* calculate_scores of the command line and of the single-sheet processor
SpecCli == InitCli /\ [][NextCli]_vars

InitWeights == construct(PlainPatients)

NextWeights == SyntaxBaseScore \/ GensiniVesselWeight

\* the weight of a lesion in SyntaxCalculator and in GensiniCalculator
SpecWeights == InitWeights /\ [][NextWeights]_vars

AddLesionTest == add_lesion(TestLesions, MaxScenarioLesions)

Init == construct(TestPatients)

Next ==
    \/ AddLesionTest
    \/ SyntaxCalculate
    \/ GensiniCalculate
    \/ CadRadsCalculate
    \/ SyntaxReport
    \/ GensiniReport
    \/ CadRadsReport

\* the three calculators and their reports over the test suite's patients
Spec == Init /\ [][Next]_vars


(***************************************************************************)
(* Claims.                                                                 *)
(***************************************************************************)
\* the sum of a sequence of integers
RECURSIVE SeqSum(_)
SeqSum(xs) == IF xs = <<>> THEN 0 ELSE Head(xs) + SeqSum(Tail(xs))

\* what a lesion adds to the SYNTAX sum: nothing below 50 %, else its
\* weight x stenosis factor + complexity
SyntaxContribution(lesion) ==
    IF lesion.stenosis_percent < 5000 THEN 0
    ELSE Syntax_get_base_score(lesion) + Syntax_get_complexity_score(lesion)

\* the exact sum of the lesions' SYNTAX contributions, in hundredths
SyntaxExactSum(ls) ==
    SeqSum([i \in DOMAIN ls |-> SyntaxContribution(ls[i])])

C2_TotalIsExactSum ==
    \A r \in returned("syntax.calculate") :
        /\ r.total_score = SyntaxExactSum(lesions)
        /\ lesions = <<LAD_proximal_75>> => r.total_score = 525
        /\ lesions = <<LAD_proximal_75, LCX_proximal_90_calcified, RCA_mid_60>>
               => r.total_score = 1525

\* the lesions of test_multi_calculator_report, in the order they are added
MultiLesions ==
    <<LAD_proximal_90_bifurcation_calcified, LCX_proximal_75_length_25,
      RCA_mid_100_cto>>

\* C4: for the three-lesion patient of test_multi_calculator_report the
\* detailed reports give SYNTAX risk_category high, CAD-RADS overall_grade
\* >= 4 and Gensini severity_grade severe or critical.
C4_MultiCalculatorReport ==
    (patient = MultiPatient /\ lesions = MultiLesions) =>
        /\ \A r \in returned("syntax.get_detailed_report") :
               r.scores.risk_category = "high"
        /\ \A r \in returned("cadrads.get_detailed_report") :
               r.cadrads_result.overall_grade >= 4
        /\ \A r \in returned("gensini.get_detailed_report") :
               r.gensini_result.severity_grade \in {"severe", "critical"}

\* the step function C5 states: 0 -> 0, (0, 25) -> 1, [25, 50) -> 2,
\* [50, 70) -> 3, [70, 100) -> 4, 100 -> 5
C5_StepGrade(stenosis_percent) ==
    IF stenosis_percent = 0 THEN 0
    ELSE IF stenosis_percent < 2500 THEN 1
    ELSE IF stenosis_percent < 5000 THEN 2
    ELSE IF stenosis_percent < 7000 THEN 3
    ELSE IF stenosis_percent < 10000 THEN 4
    ELSE 5

\* C5: _stenosis_to_grade is that step function over the whole of [0, 100],
\* whole numbers or not, and so never decreases as the stenosis grows.
C5_GradeIsMonotonicStep ==
    LET rs == returned("cadrads._stenosis_to_grade")
    IN  /\ \A r \in rs : r.grade = C5_StepGrade(r.stenosis_percent)
        /\ \A r1, r2 \in rs :
               r1.stenosis_percent <= r2.stenosis_percent
                   => r1.grade <= r2.grade

\* the indices of the lesions on vessel v
LesionsOn(v) == {i \in DOMAIN lesions : lesions[i].vessel = v}

\* C6: for a patient with lesions, each vessel's grade is the maximum of the
\* grades of that vessel's lesions, overall_grade is the maximum of the
\* vessels' grades and so of all the lesions' grades, and max_stenosis is the
\* largest stenosis_percent of all lesions.
C6_GradesAreMaxima ==
    \A r \in returned("cadrads.calculate") :
        lesions # <<>> =>
            /\ DOMAIN r.vessel_grades = VesselsOf(lesions)
            /\ \A v \in VesselsOf(lesions) :
                   r.vessel_grades[v] =
                       Max({CadRads_stenosis_to_grade(lesions[i].stenosis_percent) :
                               i \in LesionsOn(v)})
            /\ r.overall_grade =
                   Max({r.vessel_grades[v] : v \in VesselsOf(lesions)})
            /\ r.overall_grade =
                   Max({CadRads_stenosis_to_grade(lesions[i].stenosis_percent) :
                           i \in DOMAIN lesions})
            /\ r.max_stenosis =
                   Max({lesions[i].stenosis_percent : i \in DOMAIN lesions})

\* the importance weights C7 states
C7_Weight(v) ==
    CASE v = "LM" -> 5
      [] v = "LAD" -> 4
      [] v \in {"LCX", "RCA"} -> 3
      [] v \in {"OM", "D", "PDA"} -> 2
      [] v = "PLV" -> 1

\* the sum over vessel v's lesions of stenosis_percent/100 x weight, scaled
\* by 10000
C7_VesselSum(v) ==
    SeqSum([i \in DOMAIN lesions |->
               IF lesions[i].vessel = v
               THEN lesions[i].stenosis_percent * C7_Weight(v) ELSE 0])

C8_LeftMainDominant ==
    lesions = <<LM_proximal_70, LAD_proximal_90>> =>
        \A r \in returned("cadrads.calculate") : r.dominant_vessel = "LM"

\* the table C9 states: 0 -> 0, (0,25] -> 1, (25,50] -> 2, (50,75] -> 4,
\* (75,90] -> 8, (90,99] -> 16, (99,100] -> 32
C9_Score(stenosis_percent) ==
    IF stenosis_percent = 0 THEN 0
    ELSE IF stenosis_percent <= 2500 THEN 1
    ELSE IF stenosis_percent <= 5000 THEN 2
    ELSE IF stenosis_percent <= 7500 THEN 4
    ELSE IF stenosis_percent <= 9000 THEN 8
    ELSE IF stenosis_percent <= 9900 THEN 16
    ELSE 32

\* C9: _get_stenosis_score applies the intervals min < stenosis <= max over
\* [0, 100]: score(25) = 1, score(25.01) = 2, score(100) = 32, score(0) = 0,
\* and every stenosis in (0, 100] lies in exactly one interval and gets a
\* score other than 0.
C9_StenosisScoreHalfOpen ==
    \A r \in returned("gensini._get_stenosis_score") :
        /\ r.score = C9_Score(r.stenosis_percent)
        /\ r.stenosis_percent = 2500 => r.score = 1
        /\ r.stenosis_percent = 2501 => r.score = 2
        /\ r.stenosis_percent = 10000 => r.score = 32
        /\ r.stenosis_percent = 0 => r.score = 0
        /\ r.stenosis_percent > 0 =>
               /\ r.score # 0
               /\ Cardinality({k \in DOMAIN STENOSIS_SCORES :
                      Gensini_in_interval(STENOSIS_SCORES[k][1],
                                          r.stenosis_percent,
                                          STENOSIS_SCORES[k][2])}) = 1

\* C9 witness: _get_stenosis_score(25.01) has returned 2
C9_Witness ==
    \E r \in returned("gensini._get_stenosis_score") :
        r.stenosis_percent = 2501 /\ r.score = 2

\* the sum of f over the finite set S
RECURSIVE SetSum(_, _)
SetSum(f, S) ==
    IF S = {} THEN 0
    ELSE LET x == CHOOSE y \in S : TRUE
         IN  f[x] + SetSum(f, S \ {x})

\* the severity bands C10 states, of a total in thousandths
C10_Severity(total) ==
    IF total = 0 THEN "normal"
    ELSE IF total <= 20000 THEN "mild"
    ELSE IF total <= 40000 THEN "moderate"
    ELSE IF total <= 80000 THEN "severe"
    ELSE "critical"

C11_ClinicalScore(p) ==
      (IF p.age >= 80 THEN 10 ELSE IF p.age >= 70 THEN 5
       ELSE IF p.age >= 60 THEN 2 ELSE 0)
    + (IF p.gender = "female" THEN 2 ELSE 0)
    + (IF p.diabetes THEN 3 ELSE 0)
    + (IF p.creatinine_mg_dl # None /\ p.creatinine_mg_dl > 20 THEN 4 ELSE 0)
    + (IF p.ejection_fraction # None /\ p.ejection_fraction < 500
       THEN 3 ELSE 0)

\* C11: the clinical_score SyntaxCalculator.calculate reports is the sum of
\* the age, sex, diabetes, creatinine and ejection-fraction points, for an
\* ejection fraction of 0 too and whether or not the patient has lesions.
C11_ClinicalScoreIsSum ==
    \A r \in returned("syntax.calculate") :
        r.clinical_score = C11_ClinicalScore(patient)

\* C12: for a patient with a lesion of 50 % or more and a clinical risk
\* factor, calculate returns clinical_score > 0 and syntax_ii_score =
\* anatomical_score x (1 + clinical_score/100), strictly above
\* anatomical_score.
C12_SyntaxIIAboveAnatomical ==
    \A r \in returned("syntax.calculate") :
        (/\ \E i \in DOMAIN lesions : lesions[i].stenosis_percent >= 5000
         /\ C11_ClinicalScore(patient) > 0)
            => /\ r.clinical_score > 0
               /\ r.syntax_ii_score * 100
                      = r.anatomical_score * (100 + r.clinical_score)
               /\ r.syntax_ii_score > r.anatomical_score

C14_SinceLastPatient ==
    LET made == {k \in DOMAIN calls :
                    calls[k].op = "PatientData" /\ ~calls[k].value.raised}
        last == IF made = {} THEN 0 ELSE Max(made)
    IN  {k \in DOMAIN calls : k > last}

\* C14: Lesion with stenosis_percent outside [0, 100], and PatientData with
\* age outside [0, 150] or ejection_fraction outside [0, 100], raise and
\* create no object, arguments inside are accepted; so every lesion a
\* patient holds has 0 <= stenosis_percent <= 100, and the patient's age and
\* ejection fraction are in range.
C14_ValidatedAtConstruction ==
    /\ \A k \in DOMAIN calls :
           /\ calls[k].op = "Lesion" =>
                  (calls[k].value.raised
                      <=> ~(0 <= calls[k].value.stenosis_percent
                            /\ calls[k].value.stenosis_percent <= 10000))
           /\ calls[k].op = "PatientData" =>
                  (calls[k].value.raised
                      <=> \/ ~(0 <= calls[k].value.age
                               /\ calls[k].value.age <= 150)
                          \/ /\ calls[k].value.ejection_fraction # None
                             /\ ~(0 <= calls[k].value.ejection_fraction
                                  /\ calls[k].value.ejection_fraction <= 1000))
    /\ Len(lesions) =
           Cardinality({k \in C14_SinceLastPatient :
                           calls[k].op = "Lesion" /\ ~calls[k].value.raised})
    /\ \A i \in DOMAIN lesions :
           0 <= lesions[i].stenosis_percent
               /\ lesions[i].stenosis_percent <= 10000
    /\ 0 <= patient.age /\ patient.age <= 150
    /\ patient.ejection_fraction # None =>
           0 <= patient.ejection_fraction /\ patient.ejection_fraction <= 1000

\* C14 witness: Lesion(100.01) raised, Lesion(100) and Lesion(0) were
\* constructed and added: the patient holds exactly those two
C14_Witness ==
    /\ Len(calls) = 3
    /\ calls[1].value = [stenosis_percent |-> 10001, raised |-> TRUE]
    /\ calls[2].value = [stenosis_percent |-> 10000, raised |-> FALSE]
    /\ calls[3].value = [stenosis_percent |-> 0, raised |-> FALSE]
    /\ lesions = <<Lesion("LAD", "proximal", 10000),
                   Lesion("LAD", "proximal", 0)>>


\* C15: merge_scores is a left join on the patient identifier: the merged
\* table has the input rows, in their order and number also when rows share
\* an identifier; a row whose identifier has a score record carries that
\* record's score columns, any other row null score columns.
C15_MergeIsLeftJoin ==
    \A r \in returned("run_scoring_with_dialog.merge_scores") :
        r.merged = [i \in DOMAIN r.df |->
                       [subjid |-> r.df[i],
                        scores |-> IF r.df[i] \in r.agg THEN r.df[i]
                                   ELSE "null"]]

\* the positions in a batch of the files of one of the kinds
C16_FilesOfKind(files, kinds) == {i \in DOMAIN files : files[i] \in kinds}

\* C16: in the batch loop of main a file that lacks a required column or
\* cannot be read aborts only itself: every file is attempted once, in
\* selection order, every other file is written, the failing file gets
\* exactly one file-level entry, and main returns 0; of 5 files with file 3
\* bad, 4 are written and one entry is recorded.
C16_FileErrorIsIsolated ==
    \A r \in returned("run_scoring_with_dialog.main") :
        /\ r.attempted = [i \in DOMAIN r.files |-> i]
        /\ {r.written[k] : k \in DOMAIN r.written}
               = C16_FilesOfKind(r.files, {"ok"})
        /\ Len(r.written) = Cardinality(C16_FilesOfKind(r.files, {"ok"}))
        /\ {r.error_summaries[k] : k \in DOMAIN r.error_summaries}
               = C16_FilesOfKind(r.files, {"missing_column", "unreadable"})
        /\ Len(r.error_summaries)
               = Cardinality(C16_FilesOfKind(r.files,
                                             {"missing_column", "unreadable"}))
        /\ r.exit = 0
        /\ r.files = <<"ok", "ok", "missing_column", "ok", "ok">>
               => Len(r.written) = 4 /\ Len(r.error_summaries) = 1

\* the rows of a table whose patient identifier is missing or blank
C17_BadRows(rows) == {i \in DOMAIN rows : rows[i].subjid \in {"", "NaN"}}

\* C17: within one file a row whose normalization raises, a missing or
\* blank identifier included, is reported with its row index and
\* identifier and skipped alone; every row of the file is in the merged
\* output.
C17_RowErrorIsIsolated ==
    \A r \in returned("run_scoring_with_dialog.main.rows") :
        /\ {r.reported[k].row_index : k \in DOMAIN r.reported}
               = C17_BadRows(r.rows)
        /\ \A k \in DOMAIN r.reported :
               r.reported[k].patient_id = r.rows[r.reported[k].row_index].subjid
        /\ Len(r.merged) = Len(r.rows)
        /\ r.exit = 0

\* the identifiers of a sequence of lesion records
C18_Ids(records) == {records[i].patient_id : i \in DOMAIN records}

\* C18: aggregate_scores produces exactly one score record per distinct
\* patient identifier, every lesion record goes to the collection of its
\* own patient_id, and the patient's age is that of the first record with
\* the identifier.
C18_AggregatePerPatient ==
    \A r \in returned("run_scoring_with_dialog.aggregate_scores") :
        /\ Len(r.aggregated) = Cardinality(C18_Ids(r.lesions))
        /\ {r.aggregated[k].patient_id : k \in DOMAIN r.aggregated}
               = C18_Ids(r.lesions)
        /\ \A k \in DOMAIN r.aggregated :
               LET own == {i \in DOMAIN r.lesions :
                              r.lesions[i].patient_id
                                  = r.aggregated[k].patient_id}
               IN  /\ r.aggregated[k].lesions = own
                   /\ r.aggregated[k].age
                          = r.lesions[CHOOSE i \in own :
                                         \A j \in own : i <= j].age


\* C19: import_from_file of the JSON file export_to_file wrote succeeds and
\* returns as many patients, in the same order, each with the patient_id,
\* age, gender and number of lesions of the patient exported.
C19_ExportImportRoundTrip ==
    \A r \in returned("data_io.export_import") :
        /\ r.imported.raised = ""
        /\ Len(r.imported.patients) = Len(r.exported)
        /\ \A i \in DOMAIN r.exported :
               /\ r.imported.patients[i].patient_id = r.exported[i].patient_id
               /\ r.imported.patients[i].age = r.exported[i].age
               /\ r.imported.patients[i].gender = r.exported[i].gender
               /\ Len(r.imported.patients[i].lesions)
                      = Len(r.exported[i].lesions)

\* C20: _import_from_excel of a workbook with a patients and a lesions sheet
\* returns one patient per row of the patients sheet, each with exactly the
\* rows of the lesions sheet that have its patient_id, none if there are
\* none.
C20_ExcelOneToManyJoin ==
    \A r \in returned("data_io._import_from_excel") :
        /\ r.imported.raised = ""
        /\ Len(r.imported.patients) = Len(r.df_patients)
        /\ \A i \in DOMAIN r.df_patients :
               /\ r.imported.patients[i].patient_id
                      = r.df_patients[i].patient_id
               /\ r.imported.patients[i].lesions
                      = LesionRowsOf(r.df_lesions,
                                     r.df_patients[i].patient_id, 1)


\* the weight claimed for a lesion in SYNTAX, in hundredths: the table weight
\* of its segment_id, else the proximal weight of its vessel (1.0 for OM, D,
\* PDA and PLV) x 1.0, 0.7 or 0.4 by location
C22_Weight(lesion) ==
    IF lesion.segment_id # None THEN VESSEL_WEIGHTS[lesion.segment_id] * 10
    ELSE (CASE lesion.vessel = "LM" -> 50
            [] lesion.vessel \in {"LAD", "LCX", "RCA"} -> 35
            [] OTHER -> 10)
         * (CASE lesion.location = "proximal" -> 10
              [] lesion.location = "mid" -> 7
              [] lesion.location = "distal" -> 4)

\* C22: _get_base_score is the stenosis factor times the segment's table
\* weight for a lesion with a segment_id, and times the weight inferred from
\* vessel and location for a lesion without one (1.0 for OM, D, PDA, PLV;
\* proximal weight x 1.0 / 0.7 / 0.4).
C22_BaseWeightInferred ==
    \A r \in returned("syntax._get_base_score") :
        r.base_score * 10
            = C22_Weight(r.lesion)
                  * Syntax_stenosis_factor(r.lesion.stenosis_percent)

\* the per-vessel base weight x 1.0, 0.8 or 0.5 by location, in thousandths
C23_Weight(v, loc) ==
    (Gensini_default_weights[v]
        * (CASE loc = "proximal" -> 10 [] loc = "mid" -> 8
             [] loc = "distal" -> 5)) \div 10

\* C23: _get_vessel_weight is the per-segment weight for a segment_id of the
\* table, else base weight x location factor, so that for one vessel a distal
\* lesion never weighs more than a mid one, nor a mid one more than a
\* proximal one.
C23_VesselWeightMonotonic ==
    /\ \A r \in returned("gensini._get_vessel_weight") :
           r.vessel_weight
               = IF r.lesion.segment_id \in DOMAIN GENSINI_WEIGHTS
                 THEN GENSINI_WEIGHTS[r.lesion.segment_id]
                 ELSE C23_Weight(r.lesion.vessel, r.lesion.location)
    /\ \A v \in VesselType :
           LET w(loc) == Gensini_get_vessel_weight(Lesion(v, loc, 7500))
           IN  \/ returned("gensini._get_vessel_weight") = {}
               \/ (w("distal") <= w("mid") /\ w("mid") <= w("proximal"))


\* the numbers written in a text
C21_Numbers(s) ==
    LET numbers == re_findall_numbers(s, 1, None, <<>>)
    IN  {numbers[i] : i \in DOMAIN numbers}

\* the extraction rules in the order claimed: negative marker, occlusion
\* marker, number, severity adjective, no lesion
C21_Expected(s) ==
    IF Str_any_in({Zh.wu_xiazhai, Zh.zhengchang, Zh.weijian_xiazhai}, s)
    THEN 0
    ELSE IF Str_any_in({Zh.wanquan_bise, Zh.bise, <<"1", "0", "0", "%">>,
                        <<"C", "T", "O">>}, s) THEN 10000
    ELSE IF C21_Numbers(s) # {} THEN 100 * Max(C21_Numbers(s))
    ELSE IF Str_in(Zh.zhongdu, s) \/ Str_in(Zh.yanzhong, s) THEN 9000
    ELSE IF Str_in(Zh.zhongdu1, s) THEN 7000
    ELSE IF Str_in(Zh.qingdu, s) THEN 5000
    ELSE None

\* C21: extract_stenosis_percent applies its rules in priority order, first
\* match wins: negative marker 0, occlusion marker 100, the maximum of the
\* numbers of the text, and a severity adjective only when the text holds no
\* number; a text with a number and an adjective yields the number.
C21_NumberBeforeAdjective ==
    \A r \in returned("extract_stenosis_percent") :
        (Str_in(<<"%">>, r.text) \/ Str_any_in(STENOSIS_KEYWORDS, r.text))
            => r.stenosis = C21_Expected(r.text)

\* C29: extract_stenosis_percent returns None or a value within [0, 100],
\* whatever other numbers the text holds.
C29_ExtractedWithinRange ==
    \A r \in returned("extract_stenosis_percent") :
        r.stenosis = None \/ (0 <= r.stenosis /\ r.stenosis <= 10000)


\* the place of a canonical field in field_mapping
C24_FieldIndex(field) ==
    CHOOSE i \in DOMAIN field_mapping : field_mapping[i].field = field

\* C24: analyze_columns takes the canonical fields in table order, gives
\* each at most one column of the table, gives no column to two fields, and
\* maps a field only with a score strictly above 50.
C24_ColumnClaimedOnce ==
    \A r \in returned("analyze_columns") :
        LET m == r.column_mapping
        IN  /\ \A i, j \in DOMAIN m :
                   i < j => /\ C24_FieldIndex(m[i].field)
                                < C24_FieldIndex(m[j].field)
                            /\ m[i].column # m[j].column
            /\ \A i \in DOMAIN m :
                   /\ m[i].score > Score_points(50)
                   /\ \E j \in DOMAIN r.columns :
                          m[i].column = Str_strip(r.columns[j])

\* a table whose column "a" is a candidate of patient_id and of age: the
\* first claims it, the second gets the other column
C24_Witness ==
    \E r \in returned("analyze_columns") :
        /\ r.columns = <<(<<"a">>), (<<"a", "g", "e">>)>>
        /\ Len(r.column_mapping) = 2
        /\ r.column_mapping[1].field = "patient_id"
        /\ r.column_mapping[1].column = <<"a">>
        /\ r.column_mapping[2].field = "age"
        /\ r.column_mapping[2].column = <<"a", "g", "e">>
        /\ analyze_columns_field_unclaimed(
               field_mapping[2].possible_names, <<(<<"a">>)>>,
               r.column_mapping).match = <<(<<"a">>)>>

\* col matches an alias of the i-th field but for case and blanks
C25_Exact(i, col) ==
    \E k \in DOMAIN field_mapping[i].possible_names :
        Str_strip(Str_lower(col))
            = Str_strip(Str_lower(field_mapping[i].possible_names[k]))

\* C25: a score is 100 for an exact match and at most 80 for a containment,
\* and a field with an unused column that matches one of its aliases
\* exactly is mapped to an exactly matching column.
C25_ExactMatchWins ==
    \A r \in returned("analyze_columns") :
        LET m == r.column_mapping
            available == {Str_strip(r.columns[j]) : j \in DOMAIN r.columns}
            earlier(i) ==
                {m[k].column : k \in {n \in DOMAIN m :
                                         C24_FieldIndex(m[n].field) < i}}
        IN  /\ \A k \in DOMAIN m :
                   \/ m[k].score = Score_points(100)
                   \/ m[k].score <= Score_points(80)
            /\ \A i \in DOMAIN field_mapping :
                   (\E col \in available \ earlier(i) : C25_Exact(i, col))
                       => \E k \in DOMAIN m :
                              /\ m[k].field = field_mapping[i].field
                              /\ C25_Exact(i, m[k].column)


\* C26: standardize_vessel_name maps every variant of a canonical vessel,
\* the canonical codes in any letter case included, to that vessel, and only
\* a value that matches no variant, or a missing one, to the default LAD; a
\* canonical value comes back unchanged.
C26_VesselAliasToCanonical ==
    \A r \in returned("standardize_vessel_name") :
        \A i \in DOMAIN vessel_standardization :
            (/\ ~r.vessel_value.isna
             /\ \E k \in DOMAIN vessel_standardization[i].variants :
                    Str_upper(Str_strip(r.vessel_value.str))
                        = Str_upper(vessel_standardization[i].variants[k]))
                => r.vessel = vessel_standardization[i].standard_name

\* C27: gender normalisation is a table lookup: a token listed for female
\* gives female, one listed for male gives male, an unmatched or missing
\* value gives male, and a token of stsex_mapping.json gives the value the
\* file has for it.
C27_GenderLookup ==
    /\ \A r \in returned("standardize_gender") :
           /\ \A i \in DOMAIN gender_standardization :
                  (/\ ~r.gender_value.isna
                   /\ \E k \in DOMAIN gender_standardization[i].variants :
                          r.gender_value.str
                              = gender_standardization[i].variants[k])
                      => r.gender = gender_standardization[i].standard_gender
           /\ r.gender_value.isna => r.gender = "male"
    /\ \A r \in returned("normalize_gender") :
           /\ r.value.isna => r.gender = "male"
           /\ \A kv \in (IF r.config.present THEN r.config.data
                         ELSE DEFAULT_STSEX_MAP) :
                  (~r.value.isna
                   /\ Str_lower(Str_strip(r.value.str))
                          = Str_lower(Str_strip(kv[1])))
                      => r.gender = kv[2]


\* the rows of a table that have an identifier and a segment cell with a
\* stenosis statement, by extract_stenosis_percent: "70%" parses to 70 and
\* 正常 to 0, "x" and the empty cell are no statements
C28_LesionRows(rows) ==
    {i \in DOMAIN rows : /\ rows[i].subjid \notin {"", "NaN"}
                         /\ rows[i].segment \in {"70%", "zhengchang"}}

\* C28: in the wide layout iter_lesions yields, for each row with a valid
\* identifier, one lesion per segment column whose cell holds a stenosis
\* statement, one that parses to 0 included, and nothing for other cells.
C28_OneLesionPerSegmentCell ==
    \A r \in returned("run_scoring_with_dialog.iter_lesions") :
        /\ r.raised = ""
        /\ Len(r.lesions) = Cardinality(C28_LesionRows(r.rows))


\* the scores of one patient are failure-isolated: an entry per calculator
\* selected, in order, with an error exactly for those that raised
C30_Isolated(scores, calculators, raising) ==
    /\ Len(scores) = Len(calculators)
    /\ \A k \in DOMAIN scores :
           /\ scores[k].calc_name = calculators[k]
           /\ scores[k].error = (calculators[k] \in raising)

\* C30: calculate_scores returns one result per patient, in input order;
\* a calculator that raises for a patient leaves an error entry for that
\* calculator only, the other calculators' results and the later patients
\* are there; the same holds of SingleSheetProcessor.calculate_scores.
C30_CalculatorFailureIsolated ==
    /\ \A r \in returned("cli.calculate_scores") :
           /\ r.raised = ""
           /\ Len(r.results) = Len(r.patients)
           /\ \A i \in DOMAIN r.patients :
                  /\ r.results[i].patient_id = r.patients[i].patient_id
                  /\ C30_Isolated(r.results[i].scores,
                                  cli_calculators(r.calculator_type),
                                  r.patients[i].raising)
    /\ \A r \in returned("SingleSheetProcessor.calculate_scores") :
           /\ r.raised = ""
           /\ C30_Isolated(r.scores, CalculatorNames, r.patient_dict.raising)

=============================================================================
